---- MODULE Spec2Model ----
(***************************************************************************)
(* Verification model of the wheel build backend in do.py (class Wheel),   *)
(* a ZipFile subclass that walks source trees, streams their files into a  *)
(* zip container, stages the *.dist-info subtree in memory and writes it   *)
(* together with the RECORD manifest at close().                           *)
(*                                                                         *)
(* Time is measured in abstract ticks.  A local calendar tuple is the      *)
(* number of ticks since 1980-01-01T00:00:00 local time; an instant        *)
(* (st_mtime, aware datetime) is the number of ticks since the same        *)
(* calendar reading in UTC, so that local = instant + UtcOffset.           *)
(***************************************************************************)
EXTENDS Integers, Sequences, FiniteSets, TLC

VARIABLES wheel, last, hist, wheel2, probe

vars == <<wheel, last, hist, wheel2, probe>>

(***************************************************************************)
(* Bounds of the model.                                                    *)
(***************************************************************************)
MaxCalls  == 2    \* add_tree calls explored per builder
CeilTick  == 2    \* local tick standing for 2107-12-31T23:59:59
UtcOffset == 1    \* local time = UTC + UtcOffset ticks
BufSize   == 2    \* bytes moved per readinto() of the reusable buffer

None == "<None>"

Max2(a, b) == IF a > b THEN a ELSE b
Min2(a, b) == IF a < b THEN a ELSE b

(***************************************************************************)
(* Names.  str.casefold, str.startswith, str.endswith and the code point   *)
(* order of str comparison are tabulated over the names the model uses.    *)
(***************************************************************************)
casefold(n) ==
    CASE n = "A" -> "a"
      [] n = "B" -> "b"
      [] n = "Z" -> "z"
      [] n = "RECORD" -> "record"
      [] n = "METADATA" -> "metadata"
      [] OTHER -> n

\* position of a string in the code point order of Python's str comparison
CodeRank(s) ==
    CASE s = ".h" -> 1
      [] s = ".secret" -> 2
      [] s = "A" -> 3
      [] s = "B" -> 4
      [] s = "METADATA" -> 5
      [] s = "RECORD" -> 6
      [] s = "Z" -> 7
      [] s = "__pycache__" -> 8
      [] s = "a" -> 9
      [] s = "b" -> 10
      [] s = "lnk" -> 11
      [] s = "metadata" -> 12
      [] s = "pkg" -> 13
      [] s = "record" -> 14
      [] s = "sub" -> 15
      [] s = "visible.txt" -> 16
      [] s = "x.dist-info" -> 17
      [] s = "y.dist-info" -> 18
      [] s = "z" -> 19

startswith_dot(n) == n \in {".h", ".secret"}

endswith_dist_info(n) == n \in {"x.dist-info", "y.dist-info"}

(***************************************************************************)
(* stat helpers and bit arithmetic.                                        *)
(***************************************************************************)
S_IFDIR == 16384     \* 0o040000
S_IFREG == 32768     \* 0o100000
S_IFLNK == 40960     \* 0o120000

S_IFMT(m) == (m \div 4096) * 4096

S_ISDIR(m) == S_IFMT(m) = S_IFDIR

RECURSIVE BitAnd(_, _)
BitAnd(a, b) ==
    IF a = 0 \/ b = 0 THEN 0
    ELSE (a % 2) * (b % 2) + 2 * BitAnd(a \div 2, b \div 2)

RECURSIVE BitOr(_, _)
BitOr(a, b) ==
    IF a = 0 THEN b
    ELSE IF b = 0 THEN a
    ELSE Max2(a % 2, b % 2) + 2 * BitOr(a \div 2, b \div 2)

\* a & ~m
BitClear(a, m) == a - BitAnd(a, m)

\* (x << 16) | d as a 32-bit field held in two 16-bit halves
Shl16Or(x, d) == [hi |-> BitOr(x, d \div 65536) % 65536, lo |-> d % 65536]

(***************************************************************************)
(* Time conversion through the resolved timezone.                          *)
(***************************************************************************)
\* naive local calendar tuple -> instant (datetime.astimezone on a naive value)
astimezone(tuple) == tuple - UtcOffset

\* instant -> local calendar tuple (dt.timetuple()[:6] in the timezone)
timetuple(instant) == instant + UtcOffset

EPOCH == 0    \* the calendar tuple (1980, 1, 1, 0, 0, 0)

min_dt == astimezone(EPOCH)

max_dt == astimezone(CeilTick)

(***************************************************************************)
(* Wheel.make_zipinfo.  path is [parts, str_slash, absolute]: the parts of *)
(* the PurePosixPath, whether it was given as a str ending in '/', and     *)
(* whether it is absolute.  typ is an st_mode (0 for None).  dt is         *)
(* [k |-> "none"], [k |-> "ts", v |-> instant] or                          *)
(* [k |-> "tuple", v |-> local tuple].                                     *)
(***************************************************************************)
NoZinfo ==
    [filename |-> [parts |-> <<>>, slash |-> FALSE], date_time |-> EPOCH,
     typ |-> 0, mode |-> 0, external_attr |-> [hi |-> 0, lo |-> 0],
     create_system |-> 0, compressed |-> FALSE]

Raise(e) == [raised |-> e, zinfo |-> NoZinfo]

make_zipinfo_typ(path, typ) ==
    LET t == S_IFMT(typ) IN
    IF ~S_ISDIR(t) /\ path.str_slash
    THEN IF t # 0 THEN -1 ELSE S_IFDIR
    ELSE IF t = 0 THEN S_IFREG ELSE t

\* mutation: the test against max_dt is missing
make_zipinfo_dt_no_ceiling(self, dt) ==
    LET inst == CASE dt.k = "ts" -> dt.v
                  [] dt.k = "tuple" -> astimezone(dt.v)
                  [] OTHER -> astimezone(EPOCH)
    IN  IF inst < min_dt
        THEN IF self.strict THEN [raised |-> "ValueError: before min_dt", v |-> 0]
             ELSE [raised |-> None, v |-> min_dt]
        ELSE [raised |-> None, v |-> inst]

make_zipinfo_dt(self, dt) ==
    LET inst == CASE dt.k = "ts" -> dt.v
                  [] dt.k = "tuple" -> astimezone(dt.v)
                  [] OTHER -> astimezone(EPOCH)
    IN  IF inst < min_dt
        THEN IF self.strict THEN [raised |-> "ValueError: before min_dt", v |-> 0]
             ELSE [raised |-> None, v |-> min_dt]
        ELSE IF inst > max_dt
        THEN IF self.strict THEN [raised |-> "ValueError: after max_dt", v |-> 0]
             ELSE [raised |-> None, v |-> max_dt]
        ELSE [raised |-> None, v |-> inst]

\* mutation: the executable flag decides for directories too
make_zipinfo_mode_exec_only(typ, traversable, executable, writable) ==
    LET m0 == IF S_ISDIR(typ) THEN 1533 ELSE 509
        m1 == IF ~executable THEN BitClear(m0, 73) ELSE m0
    IN  IF ~writable THEN BitClear(m1, 146) ELSE m1

make_zipinfo_mode(typ, traversable, executable, writable) ==
    LET m0 == IF S_ISDIR(typ) THEN 1533 ELSE 509        \* 0o2775, 0o775
        m1 == IF ~(IF S_ISDIR(typ) THEN traversable ELSE executable)
              THEN BitClear(m0, 73) ELSE m0            \* & ~0o111
    IN  IF ~writable THEN BitClear(m1, 146) ELSE m1     \* & ~0o222

\* mutation: only the last component of the path decides the hidden bit
make_zipinfo_dos_name_only(path, typ, writable) ==
    LET d0 == IF S_ISDIR(typ) THEN 16 ELSE 0
        d1 == IF ~writable THEN BitOr(d0, 1) ELSE d0
    IN  IF path.parts # <<>> /\ startswith_dot(path.parts[Len(path.parts)])
        THEN BitOr(d1, 2) ELSE d1

make_zipinfo_dos(path, typ, writable) ==
    LET d0 == IF S_ISDIR(typ) THEN 16 ELSE 0
        d1 == IF ~writable THEN BitOr(d0, 1) ELSE d0
    IN  IF \E i \in 1..Len(path.parts) : startswith_dot(path.parts[i])
        THEN BitOr(d1, 2) ELSE d1

make_zipinfo(self, path, typ, dt, traversable, executable, writable) ==
    LET t == make_zipinfo_typ(path, typ)
        d == make_zipinfo_dt(self, dt)
        mode == make_zipinfo_mode(t, traversable, executable, writable)
        dos == make_zipinfo_dos(path, t, writable)
    IN  IF t = -1 THEN Raise("AssertionError")
        ELSE IF path.absolute THEN Raise("AssertionError")
        ELSE IF d.raised # None THEN Raise(d.raised)
        ELSE IF t \notin {S_IFDIR, S_IFREG} THEN Raise("TypeError")
        ELSE [raised |-> None,
              zinfo |-> [filename |-> [parts |-> path.parts, slash |-> S_ISDIR(t)],
                         date_time |-> timetuple(d.v),
                         typ |-> t,
                         mode |-> mode,
                         external_attr |-> Shl16Or(BitOr(t, mode), dos),
                         create_system |-> 3,
                         compressed |-> ~S_ISDIR(t)]]

\* a PurePosixPath argument
PPath(parts) == [parts |-> parts, str_slash |-> FALSE, absolute |-> FALSE]

(***************************************************************************)
(* Source trees.  A directory listing is the sequence of its children in   *)
(* the order Path.iterdir() yields them.  A child is a regular file, a     *)
(* directory (with its own on-disk mtime and listing) or a symlink.        *)
(***************************************************************************)
File(n, t, x, w, c) ==
    [name |-> n, kind |-> "file", mtime |-> t, xok |-> x, wok |-> w,
     content |-> c, kids |-> <<>>]

Dir(n, t, kids) ==
    [name |-> n, kind |-> "dir", mtime |-> t, xok |-> TRUE, wok |-> TRUE,
     content |-> <<>>, kids |-> kids]

Symlink(n) ==
    [name |-> n, kind |-> "symlink", mtime |-> 0, xok |-> TRUE, wok |-> TRUE,
     content |-> <<>>, kids |-> <<>>]

\* st_mode of a regular file as lstat() reports it: S_IFREG | 0o644
st_mode(e) == S_IFREG + 420

(***************************************************************************)
(* list.sort(key=lambda p: p.name.casefold()): a stable sort on the        *)
(* casefolded name.                                                        *)
(***************************************************************************)
\* mutation: the names are compared as they are
sort_key_raw(n) == CodeRank(n)

sort_key(n) == CodeRank(casefold(n))

\* insert x behind every element whose key is not greater (stability)
RECURSIVE InsertByName(_, _)
InsertByName(sorted, x) ==
    IF sorted = <<>> THEN <<x>>
    ELSE IF sort_key(x.name) < sort_key(sorted[Len(sorted)].name)
         THEN Append(InsertByName(SubSeq(sorted, 1, Len(sorted) - 1), x),
                     sorted[Len(sorted)])
         ELSE Append(sorted, x)

RECURSIVE SortByName(_)
SortByName(s) ==
    IF s = <<>> THEN <<>>
    ELSE InsertByName(SortByName(SubSeq(s, 1, Len(s) - 1)), s[Len(s)])

RECURSIVE SelectKind(_, _)
SelectKind(s, k) ==
    IF s = <<>> THEN <<>>
    ELSE IF s[1].kind = k THEN <<s[1]>> \o SelectKind(Tail(s), k)
    ELSE SelectKind(Tail(s), k)

RECURSIVE DropName(_, _)
DropName(s, n) ==
    IF s = <<>> THEN <<>>
    ELSE IF s[1].name = n THEN DropName(Tail(s), n)
    ELSE <<s[1]>> \o DropName(Tail(s), n)

(***************************************************************************)
(* Wheel._collect_tree_info.  Returns [raised, date_time, out_dirs];       *)
(* out_dirs is the list appended to the caller's list, each element        *)
(* [staged, rel, zinfo, files] with files a list of [name, src, zinfo].    *)
(* tree_zinfo is appended by reference and its date_time is raised         *)
(* afterwards, so the element carries the final date_time.                 *)
(***************************************************************************)
\* mutation: the suffix is looked for in the last component of rel
is_dist_info_last(rel) == rel # <<>> /\ endswith_dist_info(rel[Len(rel)])

is_dist_info_rel(rel) == rel # <<>> /\ endswith_dist_info(rel[1])

collect_file(self, rel, e) ==
    IF is_dist_info_rel(rel)
    THEN make_zipinfo(self, PPath(Append(rel, e.name)), S_IFREG,
                      [k |-> "none"], TRUE, TRUE, TRUE)
    ELSE make_zipinfo(self, PPath(Append(rel, e.name)), st_mode(e),
                      [k |-> "ts", v |-> e.mtime], TRUE, e.xok, e.wok)

\* the loop over tree.iterdir(): acc holds the files seen, tree_zinfo.date_time
\* so far, and the exception make_zipinfo raised, if any
RECURSIVE collect_files(_, _, _, _)
RECURSIVE collect_files_step(_, _, _, _, _)

collect_files(self, rel, listing, acc) ==
    IF listing = <<>> \/ acc.raised # None THEN acc
    ELSE IF listing[1].kind # "file"
    THEN collect_files(self, rel, Tail(listing), acc)
    ELSE collect_files_step(self, rel, listing, acc,
                            collect_file(self, rel, listing[1]))

collect_files_step(self, rel, listing, acc, r) ==
    IF r.raised # None
    THEN [acc EXCEPT !.raised = r.raised]
    ELSE collect_files(self, rel, Tail(listing),
           [raised |-> None,
            date_time |-> IF ~is_dist_info_rel(rel)
                             /\ r.zinfo.date_time > acc.date_time
                          THEN r.zinfo.date_time ELSE acc.date_time,
            files |-> Append(acc.files,
                        [name |-> listing[1].name, src |-> listing[1],
                         zinfo |-> r.zinfo])])

RECURSIVE collect_tree_info(_, _, _)
RECURSIVE collect_subdirs(_, _, _, _)
RECURSIVE collect_subdirs_step(_, _, _, _, _)

\* the loop over the sorted subdirectories
collect_subdirs(self, rel, dirs, acc) ==
    IF dirs = <<>> \/ acc.raised # None THEN acc
    ELSE collect_subdirs_step(self, rel, dirs, acc,
           collect_tree_info(self, Append(rel, dirs[1].name), dirs[1].kids))

\* mutation: the time a subdirectory returns is dropped
collect_subdirs_step_flat(self, rel, dirs, acc, sub) ==
    IF sub.raised # None
    THEN [acc EXCEPT !.raised = sub.raised]
    ELSE collect_subdirs(self, rel, Tail(dirs),
           [raised |-> None,
            date_time |-> acc.date_time,
            out_dirs |-> acc.out_dirs \o sub.out_dirs])

collect_subdirs_step(self, rel, dirs, acc, sub) ==
    IF sub.raised # None
    THEN [acc EXCEPT !.raised = sub.raised]
    ELSE collect_subdirs(self, rel, Tail(dirs),
           [raised |-> None,
            date_time |-> IF ~is_dist_info_rel(rel)
                             /\ sub.date_time > acc.date_time
                          THEN sub.date_time ELSE acc.date_time,
            out_dirs |-> acc.out_dirs \o sub.out_dirs])

\* what the call returns once both loops are done
collect_result(rel, tree_zinfo, fs, ds) ==
    IF ds.raised # None
    THEN [raised |-> ds.raised, date_time |-> EPOCH, out_dirs |-> <<>>]
    ELSE [raised |-> None,
          date_time |-> ds.date_time,
          out_dirs |-> <<[staged |-> is_dist_info_rel(rel),
                          rel |-> rel,
                          zinfo |-> [tree_zinfo EXCEPT !.date_time = ds.date_time],
                          files |-> SortByName(fs.files)]>> \o ds.out_dirs]

collect_recurse(self, rel, tree, tree_zinfo, fs) ==
    IF fs.raised # None
    THEN [raised |-> fs.raised, date_time |-> EPOCH, out_dirs |-> <<>>]
    ELSE collect_result(rel, tree_zinfo, fs,
           collect_subdirs(self, rel,
             SortByName(DropName(SelectKind(tree, "dir"), "__pycache__")),
             [raised |-> None, date_time |-> fs.date_time, out_dirs |-> <<>>]))

collect_scan(self, rel, tree, tree_zinfo) ==
    collect_recurse(self, rel, tree, tree_zinfo,
      collect_files(self, rel, tree,
        [raised |-> None, date_time |-> tree_zinfo.date_time, files |-> <<>>]))

collect_tree_info(self, rel, tree) ==
    collect_scan(self, rel, tree,
      make_zipinfo(self, PPath(rel), S_IFDIR, [k |-> "none"], TRUE, TRUE, TRUE).zinfo)

(***************************************************************************)
(* The builder.  self is a record of the instance attributes; Optional     *)
(* containers are [none, items].  An ordered dict is a sequence of         *)
(* [k, v] pairs: assignment to a present key keeps its position.           *)
(***************************************************************************)
Some(items) == [none |-> FALSE, items |-> items]

Nothing == [none |-> TRUE, items |-> <<>>]

dict_set(d, k, v) ==
    IF \E i \in 1..Len(d) : d[i].k = k
    THEN [i \in 1..Len(d) |-> IF d[i].k = k THEN [k |-> k, v |-> v] ELSE d[i]]
    ELSE Append(d, [k |-> k, v |-> v])

\* a hashlib object: the algorithm name and the bytes fed so far
sha256(data) == [name |-> "sha256", fed |-> data]

hash_update(h, chunk) == [h EXCEPT !.fed = @ \o chunk]

NoHash == [name |-> "", fed |-> <<>>]

\* mutation: the builder starts with a metadata directory already named
new_wheel_prefixed(strict) ==
    [fp |-> "open",
     strict |-> strict,
     dist_info_prefix |-> "x.dist-info",
     dist_info |-> Some(<<>>),
     record |-> Some(<<>>),
     buf |-> "bytearray",
     modified |-> EPOCH,
     filelist |-> <<>>]

\* Wheel.__init__
new_wheel(strict) ==
    [fp |-> "open",
     strict |-> strict,
     dist_info_prefix |-> None,
     dist_info |-> Some(<<>>),
     record |-> Some(<<>>),
     buf |-> "bytearray",
     modified |-> EPOCH,
     filelist |-> <<>>]

Entry(zinfo, data, rows) ==
    [zinfo |-> zinfo, data |-> data, rows |-> rows,
     file_size |-> Len(data) + Len(rows)]    \* a RECORD row counts as one unit

\* ZipFile.mkdir(zinfo)
zip_mkdir(self, zinfo) ==
    IF ~zinfo.filename.slash THEN [raised |-> "ValueError: not a directory", self |-> self]
    ELSE IF self.fp = None THEN [raised |-> "ValueError: already closed", self |-> self]
    ELSE [raised |-> None,
          self |-> [self EXCEPT !.filelist = Append(@, Entry(zinfo, <<>>, <<>>))]]

\* with self.open(zinfo, 'w') as dst: dst.write(...) of all of data
zip_write(self, zinfo, data, rows) ==
    IF self.fp = None THEN [raised |-> "ValueError: already closed", self |-> self]
    ELSE [raised |-> None,
          self |-> [self EXCEPT !.filelist = Append(@, Entry(zinfo, data, rows))]]

\* the readinto()/write()/update() loop of _add_dir over one source file
RECURSIVE pump(_, _, _)
pump(src, dst, hash) ==
    LET nbytes == Min2(BufSize, Len(src))
        chunk == SubSeq(src, 1, nbytes)
    IN  IF nbytes > 0
        THEN pump(SubSeq(src, nbytes + 1, Len(src)), dst \o chunk,
                  hash_update(hash, chunk))
        ELSE [dst |-> dst, hash |-> hash]

\* the files loop of Wheel._add_dir
RECURSIVE add_dir_files(_, _)
RECURSIVE add_dir_file(_, _, _)
RECURSIVE add_dir_record(_, _, _, _)

add_dir_files(self, files) ==
    IF files = <<>> THEN [raised |-> None, self |-> self]
    ELSE add_dir_file(self, files, pump(files[1].src.content, <<>>, sha256(<<>>)))

\* p is what the copy loop wrote and hashed
add_dir_file(self, files, p) ==
    add_dir_record(files, p.hash, Len(p.dst),
                   zip_write(self, files[1].zinfo, p.dst, <<>>))

\* w is the outcome of writing the entry
add_dir_record(files, hash, file_size, w) ==
    IF w.raised # None THEN w
    ELSE add_dir_files(
           [w.self EXCEPT !.record =
               Some(dict_set(@.items, files[1].zinfo.filename.parts,
                             [hash |-> hash, size |-> file_size]))],
           Tail(files))

\* dir.filename not in './'
not_in_dot_slash(filename) == filename.parts # <<>>

add_dir_after_mkdir(m, files) ==
    IF m.raised # None THEN m ELSE add_dir_files(m.self, files)

\* Wheel._add_dir
add_dir(self, dir, files) ==
    IF self.buf = None THEN [raised |-> "TypeError", self |-> self]
    ELSE add_dir_after_mkdir(
           IF not_in_dot_slash(dir.filename)
           THEN zip_mkdir(self, dir)
           ELSE [raised |-> None, self |-> self],
           files)

\* dir.relative_to(prefix): the parts below the one-part prefix
relative_to(dir, prefix) == SubSeq(dir, 2, Len(dir))

RECURSIVE add_dist_info_files(_, _, _)
add_dist_info_files(items, rel, files) ==
    IF files = <<>> THEN items
    ELSE add_dist_info_files(
           dict_set(items, Append(rel, files[1].name),
                    [isfile |-> TRUE, content |-> files[1].src.content,
                     hash |-> sha256(files[1].src.content)]),
           rel, Tail(files))

\* Wheel._add_dist_info once the prefix is set
add_dist_info_stage(self, dir, files) ==
    IF dir[1] # self.dist_info_prefix
    THEN [raised |-> "ValueError: not in the subpath", self |-> self]
    ELSE IF self.dist_info.none
    THEN [raised |-> "TypeError", self |-> self]
    ELSE [raised |-> None,
          self |-> [self EXCEPT !.dist_info =
              Some(add_dist_info_files(
                     dict_set(@.items, relative_to(dir, self.dist_info_prefix),
                              [isfile |-> FALSE, content |-> <<>>, hash |-> NoHash]),
                     relative_to(dir, self.dist_info_prefix), files))]]

\* mutation: every metadata directory met names the prefix anew
add_dist_info_rebind(self, dir, files) ==
    add_dist_info_stage([self EXCEPT !.dist_info_prefix = dir[1]], dir, files)

\* Wheel._add_dist_info
add_dist_info(self, dir, files) ==
    add_dist_info_stage(
      IF self.dist_info_prefix = None
      THEN [self EXCEPT !.dist_info_prefix = dir[1]]
      ELSE self,
      dir, files)

\* the loop of Wheel.add_tree over the collected directories
RECURSIVE add_tree_dirs(_, _)
RECURSIVE add_tree_next(_, _)

add_tree_dirs(self, dirs) ==
    IF dirs = <<>> THEN [raised |-> None, self |-> self]
    ELSE add_tree_next(
           IF dirs[1].staged
           THEN add_dist_info(self, dirs[1].rel, dirs[1].files)
           ELSE add_dir(self, dirs[1].zinfo, dirs[1].files),
           dirs)

add_tree_next(r, dirs) ==
    IF r.raised # None THEN r ELSE add_tree_dirs(r.self, Tail(dirs))

\* mutation: the overall time is overwritten by every call
add_tree_last_wins(self, c) ==
    IF c.raised # None THEN [raised |-> c.raised, self |-> self]
    ELSE add_tree_dirs([self EXCEPT !.modified = c.date_time], c.out_dirs)

\* Wheel.add_tree after the tree walk returned c
add_tree_collected(self, c) ==
    IF c.raised # None THEN [raised |-> c.raised, self |-> self]
    ELSE add_tree_dirs(
           IF c.date_time > self.modified
           THEN [self EXCEPT !.modified = c.date_time]
           ELSE self,
           c.out_dirs)

\* Wheel.add_tree(root, tree); root is given by the parts left after
\* root.relative_to(root.root)
add_tree(self, root, tree) ==
    add_tree_collected(self, collect_tree_info(self, root, tree))

(***************************************************************************)
(* Wheel.close.  A RECORD row is [path, digest, size]; a csv field is a    *)
(* sequence, empty for None.  The digest field f'{hash.name}={digest}' is  *)
(* the pair of the algorithm name and the bytes hashed (SHA-256 and the    *)
(* unpadded base64url encoding are injective on the model's contents).     *)
(***************************************************************************)
digest_field(hash) == <<hash.name, hash.fed>>

record_row(item) ==
    [path |-> item.k, digest |-> digest_field(item.v.hash), size |-> <<item.v.size>>]

sentinel_row(path) == [path |-> path, digest |-> <<>>, size |-> <<>>]

\* the loop of close() over self.__dist_info.items()
RECURSIVE close_flush(_, _)
RECURSIVE close_flush_write(_, _, _, _)
RECURSIVE close_flush_record(_, _, _)

close_flush(self, items) ==
    IF items = <<>> THEN [raised |-> None, self |-> self]
    ELSE close_flush_write(self, items,
           <<self.dist_info_prefix>> \o items[1].k,
           make_zipinfo(self, PPath(<<self.dist_info_prefix>> \o items[1].k),
                        IF items[1].v.isfile THEN S_IFREG ELSE S_IFDIR,
                        [k |-> "tuple", v |-> self.modified],
                        TRUE, FALSE, TRUE))

close_flush_write(self, items, path, z) ==
    IF z.raised # None THEN [raised |-> z.raised, self |-> self]
    ELSE close_flush_record(items, path,
           IF items[1].v.isfile
           THEN zip_write(self, z.zinfo, items[1].v.content, <<>>)
           ELSE zip_mkdir(self, z.zinfo))

close_flush_record(items, path, w) ==
    IF w.raised # None THEN w
    ELSE close_flush(
           IF items[1].v.isfile
           THEN [w.self EXCEPT !.record =
                   Some(dict_set(@.items, path,
                          [hash |-> items[1].v.hash,
                           size |-> Len(items[1].v.content)]))]
           ELSE w.self,
           Tail(items))

\* the rows written for self.__record.items(), then the row of RECORD itself
record_rows(self) ==
    [i \in 1..Len(self.record.items) |-> record_row(self.record.items[i])]
        \o <<sentinel_row(<<self.dist_info_prefix, "RECORD">>)>>

\* buf is released and the ZipFile closed
close_seal(w) ==
    IF w.raised # None THEN w
    ELSE [raised |-> None, self |-> [w.self EXCEPT !.buf = None, !.fp = None]]

\* the RECORD entry; self has the metadata flushed, rows is its text
close_manifest_write(self, rows, z) ==
    IF z.raised # None THEN [raised |-> z.raised, self |-> self]
    ELSE close_seal(zip_write(self, z.zinfo, <<>>, rows))

close_manifest(self, rows) ==
    close_manifest_write([self EXCEPT !.record = Nothing], rows,
      make_zipinfo(self, PPath(<<self.dist_info_prefix, "RECORD">>), 0,
                   [k |-> "tuple", v |-> self.modified], TRUE, FALSE, TRUE))

close_flushed(f) ==
    IF f.raised # None THEN f
    ELSE close_manifest([f.self EXCEPT !.dist_info = Nothing], record_rows(f.self))

\* mutation: no early return on a closed builder
close_unguarded(self) ==
    IF self.dist_info_prefix = None
    THEN [raised |-> "AssertionError", self |-> self]
    ELSE IF self.dist_info.none
    THEN [raised |-> "AttributeError", self |-> self]
    ELSE close_flushed(close_flush(self, self.dist_info.items))

close(self) ==
    IF self.fp = None THEN [raised |-> None, self |-> self]
    ELSE IF self.dist_info_prefix = None
    THEN [raised |-> "AssertionError", self |-> self]
    ELSE close_flushed(close_flush(self, self.dist_info.items))

(***************************************************************************)
(* Inputs of the builder's life cycle: the (root, tree) arguments of       *)
(* add_tree.  File times lie below, on, inside and above the range.        *)
(***************************************************************************)
T_before == min_dt - 1

T_floor == min_dt

T_mid == min_dt + 1

T_after == max_dt + 1

In(root, tree) == [root |-> root, tree |-> tree]

StreamTrees ==
    { <<File("a", T_mid, TRUE, TRUE, <<1>>)>>,
      <<File("a", T_floor, FALSE, TRUE, <<1, 2, 3>>)>>,
      <<Dir("sub", T_after, <<File("b", T_after, FALSE, TRUE, <<2>>)>>),
        File(".h", T_before, FALSE, FALSE, <<>>)>>,
      <<Dir("__pycache__", T_mid, <<File("a", T_after, TRUE, TRUE, <<1>>)>>),
        Symlink("lnk"),
        File("A", T_floor, TRUE, TRUE, <<1>>)>>,
      <<>> }

MetaTrees ==
    { <<File("METADATA", T_after, TRUE, TRUE, <<1, 2, 3>>)>>,
      <<File("RECORD", T_mid, TRUE, TRUE, <<2>>),
        File("METADATA", T_mid, TRUE, TRUE, <<1>>)>>,
      <<Dir("sub", T_after, <<File("a", T_after, TRUE, TRUE, <<1>>)>>),
        File("METADATA", T_mid, TRUE, FALSE, <<>>)>> }

\* a source root that itself holds metadata directories next to a package
MixedTree ==
    <<Dir("z", T_floor, <<File("b", T_after, TRUE, TRUE, <<2>>)>>),
      Dir("y.dist-info", T_mid, <<File("METADATA", T_mid, TRUE, TRUE, <<1>>)>>),
      File("x.dist-info", T_mid, TRUE, TRUE, <<1>>)>>

\* a source root that holds two metadata directories
TwoMetaTree ==
    <<Dir("y.dist-info", T_mid, <<File("b", T_mid, TRUE, TRUE, <<2>>)>>),
      Dir("x.dist-info", T_mid, <<File("METADATA", T_mid, TRUE, TRUE, <<1>>)>>)>>

LifeInputs ==
    { In(r, t) : r \in {<<>>, <<"pkg">>}, t \in StreamTrees }
        \cup { In(<<"x.dist-info">>, t) : t \in MetaTrees }
        \cup { In(<<"y.dist-info">>, <<File("METADATA", T_mid, TRUE, TRUE, <<1>>)>>),
               In(<<>>, MixedTree), In(<<>>, TwoMetaTree) }

(***************************************************************************)
(* The state machine.  wheel is the builder; last describes the operation  *)
(* that produced the current state (its name, the exception it raised, the *)
(* length of the container and whether the builder was closed when it      *)
(* began); hist lists the add_tree calls made so far.                      *)
(***************************************************************************)
NoProbe == [called |-> FALSE]

Init ==
    /\ wheel = new_wheel(FALSE)
    /\ last = [op |-> "init", raised |-> None, n0 |-> 0, was_closed |-> FALSE]
    /\ hist = <<>>
    /\ wheel2 = new_wheel(FALSE)
    /\ probe = NoProbe

AddTree(inputs) ==
    /\ Len(hist) < MaxCalls
    /\ \E i \in inputs : \E r \in {add_tree(wheel, i.root, i.tree)} :
        /\ wheel' = r.self
        /\ last' = [op |-> "add_tree", raised |-> r.raised,
                    n0 |-> Len(wheel.filelist), was_closed |-> wheel.fp = None]
        /\ hist' = Append(hist, [root |-> i.root, tree |-> i.tree, raised |-> r.raised])
        /\ UNCHANGED <<wheel2, probe>>

Close ==
    \E r \in {close(wheel)} :
    /\ wheel' = r.self
    /\ last' = [op |-> "close", raised |-> r.raised,
                n0 |-> Len(wheel.filelist), was_closed |-> wheel.fp = None]
    /\ UNCHANGED <<hist, wheel2, probe>>

Next ==
    \/ AddTree(LifeInputs)
    \/ Close

Spec == Init /\ [][Next]_vars

(***************************************************************************)
(* make_zipinfo as an operation of its own.  The builder's                 *)
(* _strict_timestamps attribute, which __init__ sets to False and          *)
(* make_zipinfo reads on every call, is an input here: the initial builder *)
(* is relaxed or strict.  Calls of make_zipinfo with arbitrary arguments   *)
(* interleave with add_tree and close.                                     *)
(***************************************************************************)
ProbePaths ==
    { PPath(<<"a">>),
      PPath(<<".h", "a">>),
      PPath(<<".secret">>),
      PPath(<<"pkg", ".secret">>),
      PPath(<<"visible.txt">>),
      PPath(<<"pkg", "visible.txt">>),
      PPath(<<".h", "visible.txt">>),
      [parts |-> <<"sub">>, str_slash |-> TRUE, absolute |-> FALSE],
      [parts |-> <<"a">>, str_slash |-> FALSE, absolute |-> TRUE] }

\* None, a regular file, a directory, a symlink
ProbeTypes == {0, S_IFREG + 420, S_IFDIR + 493, S_IFLNK + 511}

ProbeTimes ==
    {[k |-> "none"]}
        \cup {[k |-> "ts", v |-> t] : t \in {T_before, T_floor, T_mid, T_after}}
        \cup {[k |-> "tuple", v |-> t] : t \in {EPOCH - 1, EPOCH, CeilTick, CeilTick + 1}}

ZipInputs ==
    { In(<<"pkg">>, <<File("a", T_before, TRUE, TRUE, <<1>>),
                      File("b", T_mid, TRUE, FALSE, <<2>>)>>),
      In(<<"pkg">>, <<Dir("sub", T_mid, <<File("a", T_after, FALSE, TRUE, <<1>>)>>)>>),
      In(<<>>, <<File("a", T_mid, FALSE, TRUE, <<1, 2, 3>>)>>),
      In(<<"x.dist-info">>, <<File("METADATA", T_before, TRUE, TRUE, <<1>>)>>) }

InitZipinfo ==
    /\ wheel \in {new_wheel(FALSE), new_wheel(TRUE)}
    /\ last = [op |-> "init", raised |-> None, n0 |-> 0, was_closed |-> FALSE]
    /\ hist = <<>>
    /\ wheel2 = new_wheel(FALSE)
    /\ probe = NoProbe

MakeZipinfo ==
    \E path \in ProbePaths, typ \in ProbeTypes, dt \in ProbeTimes,
       traversable \in BOOLEAN, executable \in BOOLEAN, writable \in BOOLEAN :
        /\ probe' = [called |-> TRUE, path |-> path, typ |-> typ, dt |-> dt,
                     traversable |-> traversable, executable |-> executable,
                     writable |-> writable,
                     result |-> make_zipinfo(wheel, path, typ, dt,
                                             traversable, executable, writable)]
        /\ UNCHANGED <<wheel, last, hist, wheel2>>

\* make_zipinfo leaves the builder as it is, so a call is explored as the
\* last step of a behaviour
NextZipinfo ==
    \/ ~probe.called /\ MakeZipinfo
    \/ ~probe.called /\ AddTree(ZipInputs)
    \/ ~probe.called /\ Close

SpecZipinfo == InitZipinfo /\ [][NextZipinfo]_vars

(***************************************************************************)
(* One add_tree call on a fresh builder over a family of trees three       *)
(* directories deep: every listing of at most two children over the        *)
(* entries of its level, in every enumeration order.                       *)
(***************************************************************************)
\* sequences of at most max entries of E with different names
Listings(E, max) ==
    {s \in UNION {[1..n -> E] : n \in 0..max} :
        \A i, j \in 1..Len(s) : i < j => s[i].name # s[j].name}

WalkTimes == {T_before, T_mid, T_after}

WalkLevel0 ==
    Listings({File("a", t, TRUE, TRUE, <<1>>) : t \in WalkTimes}, 1)

WalkLevel1 ==
    Listings({File("a", t, TRUE, TRUE, <<1>>) : t \in WalkTimes}
                \cup {File("B", T_mid, TRUE, TRUE, <<2>>)}
                \cup {Dir("sub", T_before, k) : k \in WalkLevel0}
                \cup {Dir("Z", T_after, <<File("a", T_mid, TRUE, TRUE, <<1>>)>>)},
             3)

WalkLevel2 ==
    Listings({File("a", T_mid, FALSE, TRUE, <<1, 2, 3>>),
              File("A", T_before, TRUE, FALSE, <<>>),
              Dir("Z", T_mid, <<File("a", T_after, TRUE, TRUE, <<1>>)>>),
              Dir("__pycache__", T_after, <<File("a", T_after, TRUE, TRUE, <<1>>)>>),
              Symlink("lnk")}
                \cup {Dir("sub", T_after, k) : k \in WalkLevel1},
             2)

WalkInputs == {In(r, t) : r \in {<<>>, <<"pkg">>}, t \in WalkLevel2}

NextWalk ==
    \/ hist = <<>> /\ AddTree(WalkInputs)
    \/ Close

SpecWalk == Init /\ [][NextWalk]_vars

(***************************************************************************)
(* Two builders fed the same source tree: a package tree, then a metadata  *)
(* tree, then close.  The second builder sees each directory's children    *)
(* in another enumeration order and the directories with other             *)
(* modification times.                                                     *)
(***************************************************************************)
\* two listings of the same source: the same children by name, files with
\* the same times, access bits and bytes, directories the same recursively
RECURSIVE SameSource(_, _)
SameSource(t, u) ==
    /\ Len(t) = Len(u)
    /\ \A i \in 1..Len(t) : \E j \in 1..Len(u) :
        /\ t[i].name = u[j].name
        /\ t[i].kind = u[j].kind
        /\ IF t[i].kind = "dir" THEN SameSource(t[i].kids, u[j].kids)
           ELSE t[i] = u[j]

TwoOf(trees) == {p \in trees \X trees : SameSource(p[1], p[2])}

DetLevel0 ==
    Listings({File("a", T_mid, TRUE, TRUE, <<1>>),
              File("A", T_before, TRUE, FALSE, <<2>>),
              File("b", T_after, FALSE, TRUE, <<1, 2, 3>>)}, 2)

DetLevel1 ==
    Listings({File("a", T_mid, TRUE, TRUE, <<1>>)}
                \cup {Dir("sub", t, k) : t \in {T_before, T_after}, k \in DetLevel0},
             2)

DetMeta ==
    Listings({File("METADATA", T_after, TRUE, TRUE, <<1>>),
              File("a", T_mid, TRUE, TRUE, <<2>>)}, 2)

DetPackages == {[root |-> <<"pkg">>, tree |-> p[1], tree2 |-> p[2]] : p \in TwoOf(DetLevel1)}

DetMetadata == {[root |-> <<"x.dist-info">>, tree |-> p[1], tree2 |-> p[2]] : p \in TwoOf(DetMeta)}

AddTreeBoth(inputs) ==
    \E i \in inputs :
        \E r \in {add_tree(wheel, i.root, i.tree)} :
            \E r2 \in {add_tree(wheel2, i.root, i.tree2)} :
                /\ wheel' = r.self
                /\ wheel2' = r2.self
                /\ last' = [op |-> "add_tree", raised |-> r.raised,
                            n0 |-> Len(wheel.filelist), was_closed |-> wheel.fp = None]
                /\ hist' = Append(hist, [root |-> i.root, tree |-> i.tree, raised |-> r.raised])
                /\ UNCHANGED probe

CloseBoth ==
    \E r \in {close(wheel)} : \E r2 \in {close(wheel2)} :
        /\ wheel' = r.self
        /\ wheel2' = r2.self
        /\ last' = [op |-> "close", raised |-> r.raised,
                    n0 |-> Len(wheel.filelist), was_closed |-> wheel.fp = None]
        /\ UNCHANGED <<hist, probe>>

NextDet ==
    \/ hist = <<>> /\ AddTreeBoth(DetPackages)
    \/ Len(hist) = 1 /\ AddTreeBoth(DetMetadata)
    \/ Len(hist) = 2 /\ CloseBoth

SpecDet == Init /\ [][NextDet]_vars

(***************************************************************************)
(* Vocabulary of the properties.                                           *)
(***************************************************************************)
Closed == wheel.fp = None

NumEntries == Len(wheel.filelist)

\* the entries the operation described by last appended to the container
Written == {i \in 1..NumEntries : i > last.n0}

EntryParts(i) == wheel.filelist[i].zinfo.filename.parts

IsDirEntry(i) == wheel.filelist[i].zinfo.filename.slash

IsFileEntry(i) == ~IsDirEntry(i)

\* a path inside a top-level directory whose name ends in .dist-info, or
\* that directory itself
InMetadataSubtree(parts, slash) ==
    /\ parts # <<>>
    /\ endswith_dist_info(parts[1])
    /\ (slash \/ Len(parts) > 1)

ManifestPath == <<wheel.dist_info_prefix, "RECORD">>

\* the text of the manifest: the rows of the last entry of a sealed container
ManifestRows == wheel.filelist[NumEntries].rows

SetMax(S) == CHOOSE m \in S : \A x \in S : x <= m

\* the local time make_zipinfo archives for a file modified at instant mtime
ArchivedTime(mtime) ==
    LET t == mtime + UtcOffset IN
    IF t < EPOCH THEN EPOCH ELSE IF t > CeilTick THEN CeilTick ELSE t

\* archived times of the regular files streamed from a listing placed at rel
RECURSIVE StreamedTimes(_, _)
StreamedTimes(rel, listing) ==
    UNION { IF listing[i].kind = "file"
            THEN IF is_dist_info_rel(rel) THEN {}
                 ELSE {ArchivedTime(listing[i].mtime)}
            ELSE IF listing[i].kind = "dir" /\ listing[i].name # "__pycache__"
            THEN StreamedTimes(Append(rel, listing[i].name), listing[i].kids)
            ELSE {} : i \in 1..Len(listing) }

IsPrefix(p, q) == Len(p) <= Len(q) /\ SubSeq(q, 1, Len(p)) = p

\* the directory an entry belongs to: itself for a directory entry
DirOf(i) ==
    IF IsDirEntry(i) THEN EntryParts(i)
    ELSE SubSeq(EntryParts(i), 1, Len(EntryParts(i)) - 1)

EntryName(i) == EntryParts(i)[Len(EntryParts(i))]

\* rank of a name in the order of the casefolded names
FoldedRank(n) == CodeRank(casefold(n))

\* the listing found by descending from a listing along a path of names
RECURSIVE ListingAt(_, _)
ListingAt(listing, path) ==
    IF path = <<>> THEN listing
    ELSE LET i == CHOOSE i \in 1..Len(listing) :
                      listing[i].kind = "dir" /\ listing[i].name = path[1]
         IN ListingAt(listing[i].kids, Tail(path))

\* the add_tree call the state's last operation made
LastCall == hist[Len(hist)]

(***************************************************************************)
(* C1 (as stated).  Once close() has completed, every later operation on   *)
(* the builder, add_tree or a further close, raises an exception and adds  *)
(* no entry to the container.                                              *)
(***************************************************************************)
C1_EveryLaterOperationFails ==
    last.was_closed => (last.raised # None /\ NumEntries = last.n0)

(***************************************************************************)
(* C1 (amended).  Once close() has completed, every later add_tree raises  *)
(* an exception and adds no entry to the container; a further close()      *)
(* returns without an exception and adds no entry either.                  *)
(***************************************************************************)
C1_AfterClose ==
    last.was_closed =>
        /\ NumEntries = last.n0
        /\ Closed
        /\ last.op = "add_tree" => last.raised # None
        /\ last.op = "close" => last.raised = None

C1_Witness ==
    /\ last.was_closed
    /\ last.op = "add_tree"
    /\ last.raised # None
    /\ NumEntries > 0

(***************************************************************************)
(* C2.  After close() the manifest holds exactly one row whose path is     *)
(* <metadata-dir>/RECORD; it is the final row and its digest and size      *)
(* fields are empty.                                                       *)
(***************************************************************************)
C2_SingleManifestRow ==
    Closed =>
        /\ Cardinality({j \in 1..Len(ManifestRows) :
                            ManifestRows[j].path = ManifestPath}) = 1
        /\ ManifestRows[Len(ManifestRows)] = sentinel_row(ManifestPath)

(***************************************************************************)
(* C3.  After close() every file entry of the container other than the     *)
(* manifest has exactly one manifest row keyed by its path, carrying the   *)
(* digest and size of the bytes written for that entry, and every row      *)
(* before the final one corresponds to exactly one file entry.             *)
(***************************************************************************)
C3_ManifestMatchesEntries ==
    Closed =>
        LET files == {i \in 1..(NumEntries - 1) : IsFileEntry(i)}
            rows == 1..(Len(ManifestRows) - 1)
        IN  /\ \A i \in files :
                /\ Cardinality({j \in rows : ManifestRows[j].path = EntryParts(i)}) = 1
                /\ \A j \in rows :
                     ManifestRows[j].path = EntryParts(i) =>
                        /\ ManifestRows[j].digest = <<"sha256", wheel.filelist[i].data>>
                        /\ ManifestRows[j].size = <<Len(wheel.filelist[i].data)>>
            /\ \A j \in rows :
                Cardinality({i \in files : EntryParts(i) = ManifestRows[j].path}) = 1

(***************************************************************************)
(* C4.  add_tree writes no entry of the metadata-directory subtree into    *)
(* the container: its directories and files are staged in the buffer.  A   *)
(* close() that goes through appends, behind the streamed entries, the     *)
(* staged entries in their staging order and then the manifest as the last *)
(* entry, and only then is the container sealed.                           *)
(***************************************************************************)
StagedPaths(w) ==
    [i \in 1..Len(w.dist_info.items) |-> <<w.dist_info_prefix>> \o w.dist_info.items[i].k]

NamesFrom(w, n) ==
    [i \in 1..(Len(w.filelist) - n) |-> w.filelist[n + i].zinfo.filename.parts]

\* every regular file and directory lying directly in a staged listing is in
\* the buffer, with the bytes of the file
StagedIn(w, rel, listing) ==
    \A i \in 1..Len(listing) :
        LET e == listing[i] IN
        /\ e.kind = "file" =>
               \E j \in 1..Len(w.dist_info.items) :
                   /\ w.dist_info.items[j].k = Append(rel, e.name)
                   /\ w.dist_info.items[j].v.isfile
                   /\ w.dist_info.items[j].v.content = e.content
        /\ (e.kind = "dir" /\ e.name # "__pycache__") =>
               \E j \in 1..Len(w.dist_info.items) :
                   /\ w.dist_info.items[j].k = Append(rel, e.name)
                   /\ ~w.dist_info.items[j].v.isfile

C4_AddTreeStep ==
    last'.op = "add_tree" =>
        /\ \A i \in (Len(wheel.filelist) + 1)..Len(wheel'.filelist) :
               ~InMetadataSubtree(wheel'.filelist[i].zinfo.filename.parts,
                                  wheel'.filelist[i].zinfo.filename.slash)
        /\ SubSeq(wheel'.filelist, 1, Len(wheel.filelist)) = wheel.filelist
        /\ LET call == hist'[Len(hist')] IN
           (last'.raised = None /\ is_dist_info_rel(call.root)) =>
               /\ wheel'.filelist = wheel.filelist
               /\ StagedIn(wheel', relative_to(call.root, wheel'.dist_info_prefix),
                           call.tree)

C4_CloseStep ==
    (last'.op = "close" /\ wheel.fp # None /\ last'.raised = None) =>
        /\ wheel'.fp = None
        /\ \A i \in 1..Len(wheel.filelist) :
               ~InMetadataSubtree(wheel.filelist[i].zinfo.filename.parts,
                                  wheel.filelist[i].zinfo.filename.slash)
        /\ SubSeq(wheel'.filelist, 1, Len(wheel.filelist)) = wheel.filelist
        /\ NamesFrom(wheel', Len(wheel.filelist))
               = StagedPaths(wheel) \o <<<<wheel.dist_info_prefix, "RECORD">>>>

C4_Sealed ==
    (wheel'.fp = None) =>
        /\ wheel'.filelist # <<>>
        /\ wheel'.filelist[Len(wheel'.filelist)].zinfo.filename.parts
               = <<wheel'.dist_info_prefix, "RECORD">>
        /\ wheel'.filelist[Len(wheel'.filelist)].rows # <<>>

\* C4: add_tree only stages what lies under the metadata directory; close()
\* writes the staged directories and files in staging order, then the
\* manifest as the last entry, then seals the container
C4_StagedThenManifest ==
    [][C4_AddTreeStep /\ C4_CloseStep /\ C4_Sealed]_vars

C4_Witness ==
    /\ Closed
    /\ last.op = "close" /\ ~last.was_closed
    /\ last.n0 > 0
    /\ \E i \in Written : IsDirEntry(i) /\ Len(EntryParts(i)) = 2
    /\ \E i \in Written : IsFileEntry(i) /\ Len(EntryParts(i)) = 3

(***************************************************************************)
(* C5.  The entries one add_tree call appends are in traversal order.      *)
(* C5_OwnEntryFirst: every directory below (or at) the call's root that    *)
(* holds an appended entry has its own entry, appended earlier.            *)
(* C5_FilesSorted: the files of one directory follow each other in the     *)
(* order of their casefolded names.  C5_FilesBeforeSubdirs: no file of a   *)
(* directory comes after an entry of one of its subdirectories.            *)
(* C5_SubdirsSorted: of two entries in different subdirectories of one     *)
(* directory, the one in the subdirectory of lesser casefolded name comes  *)
(* first.  C5_SubtreeContiguous: the entries below a directory follow its  *)
(* own entry without interruption.                                         *)
(***************************************************************************)
C5_OwnEntryFirst ==
    \A j \in Written :
        \A k \in 1..Len(EntryParts(j)) - 1 :
            k >= Len(LastCall.root) =>
                \E i \in Written :
                    /\ i < j
                    /\ IsDirEntry(i)
                    /\ EntryParts(i) = SubSeq(EntryParts(j), 1, k)

C5_FilesSorted ==
    \A i, j \in Written :
        (i < j /\ IsFileEntry(i) /\ IsFileEntry(j) /\ DirOf(i) = DirOf(j)) =>
            FoldedRank(EntryName(i)) <= FoldedRank(EntryName(j))

C5_FilesBeforeSubdirs ==
    \A i, j \in Written :
        (i < j /\ IsFileEntry(j)) =>
            ~(IsPrefix(DirOf(j), DirOf(i)) /\ Len(DirOf(i)) > Len(DirOf(j)))

C5_SubdirsSorted ==
    \A i, j \in Written :
        i < j =>
            \A c \in 0..Len(DirOf(i)) - 1 :
                (/\ c < Len(DirOf(j))
                 /\ SubSeq(DirOf(i), 1, c) = SubSeq(DirOf(j), 1, c)
                 /\ DirOf(i)[c + 1] # DirOf(j)[c + 1]) =>
                    FoldedRank(DirOf(i)[c + 1]) <= FoldedRank(DirOf(j)[c + 1])

C5_SubtreeContiguous ==
    \A d, j, k \in Written :
        (d < j /\ j < k /\ IsDirEntry(d) /\ IsPrefix(EntryParts(d), EntryParts(k))) =>
            IsPrefix(EntryParts(d), EntryParts(j))

\* C5: within one add_tree call the entries are emitted directory first,
\* then its files in casefolded name order, then its subdirectories in
\* casefolded name order, each recursively
C5_EmissionOrder ==
    last.op = "add_tree" =>
        /\ C5_OwnEntryFirst
        /\ C5_FilesSorted
        /\ C5_FilesBeforeSubdirs
        /\ C5_SubdirsSorted
        /\ C5_SubtreeContiguous

\* pkg/sub/ holds a and B enumerated as B, a, and a subdirectory enumerated
\* before them; pkg/ holds Z/ enumerated before sub/
C5_Witness ==
    /\ last.op = "add_tree" /\ last.raised = None
    /\ LastCall.root = <<"pkg">>
    /\ Len(LastCall.tree) = 2
    /\ LastCall.tree[1].name = "Z" /\ LastCall.tree[2].name = "sub"
    /\ Len(LastCall.tree[2].kids) = 3
    /\ LastCall.tree[2].kids[1].name = "sub"
    /\ LastCall.tree[2].kids[1].kids # <<>>
    /\ LastCall.tree[2].kids[2].name = "B"
    /\ LastCall.tree[2].kids[3].name = "a"
    /\ Cardinality(Written) = 8
    /\ EntryParts(last.n0 + 3) = <<"pkg", "sub", "a">>
    /\ EntryParts(last.n0 + 4) = <<"pkg", "sub", "B">>
    /\ EntryParts(last.n0 + 6) = <<"pkg", "sub", "sub", "a">>
    /\ EntryParts(last.n0 + 8) = <<"pkg", "Z", "a">>

(***************************************************************************)
(* C6.  Two builds of the same source produce the same container: the      *)
(* same entries in the same order, with the same names, times, attributes  *)
(* and bytes, and the same manifest rows, whatever the enumeration order   *)
(* of each directory and the directories' own modification times.          *)
(***************************************************************************)
\* a directory of the listing holds two files whose names casefold alike
RECURSIVE HasFoldedTie(_)
HasFoldedTie(listing) ==
    \/ \E i, j \in 1..Len(listing) :
        /\ i # j
        /\ listing[i].kind = "file" /\ listing[j].kind = "file"
        /\ casefold(listing[i].name) = casefold(listing[j].name)
    \/ \E i \in 1..Len(listing) :
        listing[i].kind = "dir" /\ HasFoldedTie(listing[i].kids)

\* C6: two builds of the same source tree produce the same sequence of
\* entries and manifest rows, whatever the enumeration order and the
\* directories' timestamps
C6_SameContainer ==
    (last.op = "close" /\ last.raised = None) =>
        wheel.filelist = wheel2.filelist

\* the same, for sources in which no two sibling files differ only in case
C6_SameContainerWithoutTies ==
    (last.op = "close" /\ last.raised = None /\ ~HasFoldedTie(hist[1].tree)) =>
        wheel.filelist = wheel2.filelist

(***************************************************************************)
(* C7.  The entry of a non-metadata directory that add_tree appends        *)
(* carries the greatest archived time of the regular files add_tree        *)
(* streams from the directory's subtree, at any depth (1980-01-01T00:00:00 *)
(* when the subtree holds none), whatever the modification times of the    *)
(* directories themselves.                                                 *)
(***************************************************************************)
SubtreeTime(i) ==
    SetMax({EPOCH} \cup
           StreamedTimes(EntryParts(i),
                         ListingAt(LastCall.tree,
                                   SubSeq(EntryParts(i), Len(LastCall.root) + 1,
                                          Len(EntryParts(i))))))

\* C7: a non-metadata directory entry written by add_tree has the maximum
\* archived timestamp of the regular files of its whole subtree
C7_DirectoryTimestamp ==
    last.op = "add_tree" =>
        \A i \in Written :
            (IsDirEntry(i) /\ ~InMetadataSubtree(EntryParts(i), TRUE)) =>
                wheel.filelist[i].zinfo.date_time = SubtreeTime(i)

\* a directory whose own files are older than a file two levels below it,
\* and whose own modification time differs from the time archived for it
C7_Witness ==
    /\ last.op = "add_tree" /\ last.raised = None
    /\ \E d, f, g \in Written :
        /\ IsDirEntry(d) /\ IsFileEntry(f) /\ IsFileEntry(g)
        /\ DirOf(f) = EntryParts(d)
        /\ IsPrefix(EntryParts(d), DirOf(g))
        /\ Len(DirOf(g)) = Len(EntryParts(d)) + 2
        /\ wheel.filelist[f].zinfo.date_time < wheel.filelist[g].zinfo.date_time
        /\ wheel.filelist[d].zinfo.date_time = wheel.filelist[g].zinfo.date_time
        /\ wheel.filelist[d].zinfo.date_time > EPOCH
        /\ wheel.filelist[d].zinfo.date_time < CeilTick

(***************************************************************************)
(* C8.  Every entry close() writes, the metadata directories and files and *)
(* the manifest, carries the builder's overall modification time, which is *)
(* the greatest archived time of the non-metadata files of all trees       *)
(* add_tree walked before the close (1980-01-01T00:00:00 when there are    *)
(* none), whatever the order of the calls and the metadata files' own      *)
(* times; the metadata files carry no execute bit.                         *)
(***************************************************************************)
OverallTime ==
    SetMax({EPOCH} \cup UNION { StreamedTimes(hist[c].root, hist[c].tree) :
                                  c \in 1..Len(hist) })

\* C8: every entry close() writes carries the greatest archived time of
\* the non-metadata files walked before the close, and no execute bit
C8_OverallTimestamp ==
    (last.op = "close" /\ ~last.was_closed /\ last.raised = None) =>
        /\ wheel.modified = OverallTime
        /\ \A i \in Written :
            /\ wheel.filelist[i].zinfo.date_time = OverallTime
            /\ IsFileEntry(i) => BitAnd(wheel.filelist[i].zinfo.mode, 73) = 0
        /\ Written # {}

C8_Witness ==
    /\ last.op = "close" /\ ~last.was_closed /\ last.raised = None
    /\ Len(hist) = 2
    /\ is_dist_info_rel(hist[1].root)
    /\ hist[1].tree[1].mtime = T_after
    /\ ~is_dist_info_rel(hist[2].root)
    /\ wheel.modified = 1
    /\ Cardinality(Written) > 2

(***************************************************************************)
(* C9.  make_zipinfo maps every candidate time into                        *)
(* [1980-01-01T00:00:00, 2107-12-31T23:59:59]: a relaxed builder turns a   *)
(* time below the floor into the floor, one above the ceiling into the     *)
(* ceiling and keeps one inside the range; a strict builder raises an      *)
(* error naming the violated bound and produces no entry.  Every entry of  *)
(* a container therefore carries a time inside the range.                  *)
(***************************************************************************)
\* the candidate time of a call as a local calendar reading
Candidate(dt) ==
    CASE dt.k = "ts" -> dt.v + UtcOffset
      [] dt.k = "tuple" -> dt.v
      [] OTHER -> EPOCH

\* the call passes the assertions on the path and names a supported kind
ProbeWellFormed ==
    /\ ~probe.path.absolute
    /\ probe.path.str_slash => S_IFMT(probe.typ) \in {0, S_IFDIR}
    /\ S_IFMT(probe.typ) # S_IFLNK

C9_ProbeClamped ==
    (probe.called /\ ProbeWellFormed) =>
        LET c == Candidate(probe.dt)
            r == probe.result
        IN  /\ (~wheel.strict /\ c < EPOCH) =>
                   r.raised = None /\ r.zinfo.date_time = EPOCH
            /\ (~wheel.strict /\ c > CeilTick) =>
                   r.raised = None /\ r.zinfo.date_time = CeilTick
            /\ (c >= EPOCH /\ c <= CeilTick) =>
                   r.raised = None /\ r.zinfo.date_time = c
            /\ (wheel.strict /\ c < EPOCH) =>
                   r.raised = "ValueError: before min_dt" /\ r.zinfo = NoZinfo
            /\ (wheel.strict /\ c > CeilTick) =>
                   r.raised = "ValueError: after max_dt" /\ r.zinfo = NoZinfo

C9_EntriesInRange ==
    /\ \A i \in 1..NumEntries :
           /\ wheel.filelist[i].zinfo.date_time >= EPOCH
           /\ wheel.filelist[i].zinfo.date_time <= CeilTick
    /\ (last.op = "add_tree"
          /\ last.raised \in {"ValueError: before min_dt", "ValueError: after max_dt"}) =>
           wheel.strict /\ NumEntries = last.n0

\* C9: an archived time lies between 1980-01-01T00:00:00 and
\* 2107-12-31T23:59:59 local; a time outside is replaced by the nearer bound,
\* or raises ValueError when the builder is strict
C9_TimestampRange == C9_ProbeClamped /\ C9_EntriesInRange

C9_Witness ==
    /\ wheel.strict
    /\ probe.called /\ ProbeWellFormed
    /\ probe.dt = [k |-> "ts", v |-> T_after]
    /\ probe.result.raised = "ValueError: after max_dt"
    /\ NumEntries > 0
    /\ last.op = "add_tree" /\ last.raised = "ValueError: before min_dt"

(***************************************************************************)
(* C10.  For every kind of entry and every setting of the flags            *)
(* traversable, executable and writable, make_zipinfo gives a file the     *)
(* mode 0775 with the executable flag and 0664 without, a directory 2775,  *)
(* less the execute bits when it is not traversable, and in each case less *)
(* the write bits 0222 when not writable; external_attr is                 *)
(* (type | mode) << 16 OR-ed with the DOS byte: 0x10 for a directory,      *)
(* 0x01 when not writable, 0x02 when a path component starts with a dot.   *)
(***************************************************************************)
ProbeIsDir == S_IFMT(probe.typ) = S_IFDIR \/ probe.path.str_slash

ExpectedMode ==
    IF ProbeIsDir
    THEN CASE probe.traversable /\ probe.writable -> 1533       \* 02775
           [] ~probe.traversable /\ probe.writable -> 1460      \* 02664
           [] probe.traversable /\ ~probe.writable -> 1389      \* 02555
           [] OTHER -> 1316                                     \* 02444
    ELSE CASE probe.executable /\ probe.writable -> 509         \* 0775
           [] ~probe.executable /\ probe.writable -> 436        \* 0664
           [] probe.executable /\ ~probe.writable -> 365        \* 0555
           [] OTHER -> 292                                      \* 0444

ExpectedDos ==
    (IF ProbeIsDir THEN 16 ELSE 0)
        + (IF probe.writable THEN 0 ELSE 1)
        + (IF \E i \in 1..Len(probe.path.parts) : startswith_dot(probe.path.parts[i])
           THEN 2 ELSE 0)

\* C10: mode, DOS attributes, external attributes and creator system of an
\* entry are functions of its type, access flags and path alone
C10_ModeAndAttributes ==
    (probe.called /\ probe.result.raised = None) =>
        LET z == probe.result.zinfo IN
        /\ z.filename.slash = ProbeIsDir
        /\ z.typ = (IF ProbeIsDir THEN S_IFDIR ELSE S_IFREG)
        /\ z.mode = ExpectedMode
        /\ z.external_attr = [hi |-> z.typ + ExpectedMode, lo |-> ExpectedDos]

C10_Witness ==
    /\ probe.called /\ probe.result.raised = None
    /\ ProbeIsDir
    /\ ~probe.traversable /\ probe.executable /\ ~probe.writable
    /\ probe.result.zinfo.external_attr = [hi |-> S_IFDIR + 1316, lo |-> 17]

(***************************************************************************)
(* C11.  The DOS hidden bit (0x02) of the external attributes.             *)
(***************************************************************************)
ProbeName == probe.path.parts[Len(probe.path.parts)]

ProbeMadeFile ==
    /\ probe.called
    /\ probe.result.raised = None
    /\ ~probe.result.zinfo.filename.slash

ProbeHidden == BitAnd(probe.result.zinfo.external_attr.lo, 2) = 2

\* C11, as stated: a file named .secret gets the hidden bit under any
\* directory, and a file named visible.txt gets it under no directory
C11_HiddenByNameAlone ==
    ProbeMadeFile =>
        /\ ProbeName = ".secret" => ProbeHidden
        /\ ProbeName = "visible.txt" => ~ProbeHidden

\* C11, amended: a file named .secret gets the hidden bit under any
\* directory; a file named visible.txt gets it exactly when a directory
\* component of its path begins with a dot
C11_HiddenBit ==
    ProbeMadeFile =>
        /\ ProbeName = ".secret" => ProbeHidden
        /\ ProbeName = "visible.txt" =>
               (ProbeHidden <=>
                   \E i \in 1..Len(probe.path.parts) - 1 :
                       startswith_dot(probe.path.parts[i]))

C11_Witness ==
    /\ ProbeMadeFile
    /\ probe.path.parts = <<".h", "visible.txt">>
    /\ ProbeHidden
    /\ probe.writable
    /\ probe.result.zinfo.external_attr.lo = 2

(***************************************************************************)
(* get_version_from_git.  A string is a sequence of tokens: the separators *)
(* "/" and "-" and pieces of text holding neither, so that a branch        *)
(* feature-x is <<"feature", "-", "x">> and concatenation of strings is    *)
(* concatenation of sequences.  The answers of the three git commands are  *)
(* inputs; the version grammar is a table over the names used.             *)
(***************************************************************************)
Str(piece) == <<piece>>

endswith(s, suffix) ==
    Len(s) >= Len(suffix) /\ SubSeq(s, Len(s) - Len(suffix) + 1, Len(s)) = suffix

removesuffix(s, suffix) ==
    IF endswith(s, suffix) THEN SubSeq(s, 1, Len(s) - Len(suffix)) ELSE s

\* str.split(sep): the fields between the separators, left to right
RECURSIVE split(_, _)
split(s, sep) ==
    IF \E i \in 1..Len(s) : s[i] = sep
    THEN LET i == CHOOSE i \in 1..Len(s) :
                      s[i] = sep /\ \A j \in 1..i - 1 : s[j] # sep
         IN  <<SubSeq(s, 1, i - 1)>> \o split(SubSeq(s, i + 1, Len(s)), sep)
    ELSE <<s>>

\* str.rsplit(sep, maxsplit): at most maxsplit splits, taken from the right
RECURSIVE rsplit(_, _, _)
rsplit(s, sep, maxsplit) ==
    IF maxsplit > 0 /\ \E i \in 1..Len(s) : s[i] = sep
    THEN LET i == CHOOSE i \in 1..Len(s) :
                      s[i] = sep /\ \A j \in i + 1..Len(s) : s[j] # sep
         IN  rsplit(SubSeq(s, 1, i - 1), sep, maxsplit - 1)
                 \o <<SubSeq(s, i + 1, Len(s))>>
    ELSE <<s>>

NoPost == -1
NoDev == -1

Version(base, pre, post, dev, local) ==
    [base_version |-> base, pre |-> pre, post |-> post, dev |-> dev, local |-> local]

\* packaging.version.parse on the names that match VERSION_PATTERN
parse_version(s) ==
    CASE s = <<"v1.2.3">> -> Version("1.2.3", "", NoPost, NoDev, <<>>)
      [] s = <<"1.2.3.post2">> -> Version("1.2.3", "", 2, NoDev, <<>>)
      [] s = <<"v1.0", "-", "1">> -> Version("1.0", "", 1, NoDev, <<>>)
      [] s = <<"2.0rc1.dev4">> -> Version("2.0", "rc1", NoPost, 4, <<>>)
      [] s = <<"1.0+loc">> -> Version("1.0", "", NoPost, NoDev, <<"loc">>)

VersionNames ==
    {<<"v1.2.3">>, <<"1.2.3.post2">>, <<"v1.0", "-", "1">>, <<"2.0rc1.dev4">>, <<"1.0+loc">>}

\* re.fullmatch(VERSION_PATTERN, s, re.VERBOSE)
fullmatch_version(s) == s \in VersionNames

\* int(s): the number a decimal string denotes, -1 for a ValueError
int(s) ==
    CASE s = <<"0">> -> 0
      [] s = <<"1">> -> 1
      [] s = <<"3">> -> 3
      [] s = <<"4">> -> 4
      [] OTHER -> -1

TrunkNames == {<<"main">>, <<"master">>, <<"develop">>}

NoVersion == [raised |-> None, base_version |-> "", pre |-> "", post |-> NoPost,
              dev |-> NoDev, local |-> <<>>]

RaiseVersion(e) == [NoVersion EXCEPT !.raised = e]

\* lines 72-82: the dirty segment and the composition of the result
get_version_compose(v, post, dirty, local) ==
    [raised |-> None,
     base_version |-> v.base_version,
     pre |-> v.pre,
     post |-> IF post # 0 \/ dirty \/ v.post # NoPost
              THEN (IF v.post = NoPost THEN 0 ELSE v.post) + post
              ELSE NoPost,
     dev |-> v.dev,
     local |-> IF dirty THEN Append(local, Str("dirty")) ELSE local]

\* mutation: the commit id is recorded only when there are commits since
get_version_matched_clean_only(version_str, post_str, commit, dirty, local) ==
    LET valid == fullmatch_version(version_str)
        v == IF valid THEN parse_version(version_str)
             ELSE Version("0.0", "", NoPost, NoDev, <<>>)
        local1 == IF valid
                  THEN (IF v.local # <<>> THEN Append(local, v.local) ELSE local)
                  ELSE Append(local, version_str)
        post == int(post_str)
    IN  IF post = -1 THEN RaiseVersion("ValueError")
        ELSE get_version_compose(v, post, dirty,
                 IF post # 0 THEN Append(local1, commit) ELSE local1)

\* lines 55-65: the answer has three fields
get_version_matched(version_str, post_str, commit, dirty, local) ==
    LET valid == fullmatch_version(version_str)
        v == IF valid THEN parse_version(version_str)
             ELSE Version("0.0", "", NoPost, NoDev, <<>>)
        local1 == IF valid
                  THEN (IF v.local # <<>> THEN Append(local, v.local) ELSE local)
                  ELSE Append(local, version_str)
        post == int(post_str)
    IN  IF post = -1 THEN RaiseVersion("ValueError")
        ELSE get_version_compose(v, post, dirty,
                 IF post # 0 \/ dirty THEN Append(local1, commit) ELSE local1)

\* mutation: an answer without three fields is refused
get_version_unmatched_refused(parts, dirty) ==
    RaiseVersion("NotImplementedError")

\* lines 66-69: any other answer; commit is its first field and the fields
\* after it replace the local segments collected so far
get_version_unmatched(parts, dirty) ==
    get_version_compose(Version("0.0", "", NoPost, NoDev, <<>>), 0, dirty,
                        <<Str("g") \o parts[1]>> \o Tail(parts))

\* lines 45-70: the describe answer taken apart
get_version_parse(head, describe) ==
    LET dirty == endswith(describe, <<"-", "dirty">>)
        fields == split(removesuffix(describe, <<"-", "dirty">>), "/")
        local0 == SubSeq(fields, 1, Len(fields) - 1)
        local1 == IF local0 # <<>> /\ local0[1] \in {Str("heads"), Str("tags")}
                  THEN Tail(local0) ELSE local0
        local2 == IF head \notin TrunkNames THEN <<head>> \o local1 ELSE local1
        parts == rsplit(fields[Len(fields)], "-", 2)
    IN  IF Len(parts) = 3
        THEN get_version_matched(parts[1], parts[2], parts[3], dirty, local2)
        ELSE get_version_unmatched(parts, dirty)

\* a git command that exits with an error
GitFails == <<"<CalledProcessError>">>

get_version_from_git(head, describe) ==
    IF head = GitFails \/ describe = GitFails
    THEN RaiseVersion("CalledProcessError")
    ELSE get_version_parse(head, describe)

(***************************************************************************)
(* The repository states: what symbolic-ref and describe answer.  describe *)
(* prints <bucket>/<reference>-<commits since>-g<hash> for the reference   *)
(* it matched, or the bare hash, and -dirty after either.                  *)
(***************************************************************************)
Heads == {<<"main">>, <<"develop">>, <<"feature", "-", "x">>, GitFails}

RefPrefixes == {<<>>, <<"release", "/">>}

\* the reference describe matched: a retained one, or, when none is
\* retained, the current branch
MatchedRefs ==
    {[bucket |-> b, prefix |-> p, name |-> n] :
        b \in {"tags", "heads"}, p \in RefPrefixes, n \in VersionNames}
      \cup {[bucket |-> "heads", prefix |-> <<>>, name |-> n] :
              n \in {<<"main">>, <<"feature", "-", "x">>}}

CommitsSince == {<<"0">>, <<"3">>}

Hash == <<"abc">>

DirtySuffix(dirty) == IF dirty THEN <<"-", "dirty">> ELSE <<>>

describe_matched(r, n, dirty) ==
    <<r.bucket, "/">> \o r.prefix \o r.name \o <<"-">> \o n
        \o <<"-", "g">> \o Hash \o DirtySuffix(dirty)

describe_bare(dirty) == Hash \o DirtySuffix(dirty)

\* answers of neither shape
describe_other(dirty) ==
    {<<"abc", "-", "def">> \o DirtySuffix(dirty),
     <<"tags", "/", "v1.2.3", "-", "x", "-", "g">> \o Hash \o DirtySuffix(dirty)}

Repos ==
    {[shape |-> "matched", ref |-> r, n |-> n, dirty |-> d,
      describe |-> describe_matched(r, n, d)] :
        r \in MatchedRefs, n \in CommitsSince, d \in BOOLEAN}
      \cup {[shape |-> "bare", dirty |-> d, describe |-> describe_bare(d)] :
              d \in BOOLEAN}
      \cup UNION {{[shape |-> "other", dirty |-> d, describe |-> a] :
                     a \in describe_other(d)} : d \in BOOLEAN}
      \cup {[shape |-> "failed", dirty |-> FALSE, describe |-> GitFails]}

\* describe matches the current branch only, and only as heads/<branch>
Consistent(head, repo) ==
    (repo.shape = "matched" /\ ~fullmatch_version(repo.ref.name)) =>
        repo.ref.name = head

GetVersion ==
    \E head \in Heads, repo \in Repos :
        /\ Consistent(head, repo)
        /\ probe' = [called |-> TRUE, head |-> head, repo |-> repo,
                     result |-> get_version_from_git(head, repo.describe)]
        /\ UNCHANGED <<wheel, last, hist, wheel2>>

NextVersion == GetVersion

SpecVersion == Init /\ [][NextVersion]_vars

(***************************************************************************)
(* C12.  At a clean tag on a trunk branch the derived version is the       *)
(* tag's own version, with nothing added to it.                            *)
(***************************************************************************)
ProbeAtCleanTag ==
    /\ probe.called
    /\ probe.head \in TrunkNames
    /\ probe.repo.shape = "matched"
    /\ fullmatch_version(probe.repo.ref.name)
    /\ probe.repo.n = <<"0">>
    /\ ~probe.repo.dirty

\* the version the matched name denotes, as a result of the derivation
OwnVersion(name) ==
    LET v == parse_version(name) IN
    [raised |-> None, base_version |-> v.base_version, pre |-> v.pre,
     post |-> v.post, dev |-> v.dev,
     local |-> IF v.local = <<>> THEN <<>> ELSE <<v.local>>]

\* C12: clean working tree, trunk branch, zero commits since a reference
\* named by a valid version: the result is exactly that version, with no
\* local segment added, whatever ref-path components the reference has
C12_CleanTagVersion ==
    ProbeAtCleanTag => probe.result = OwnVersion(probe.repo.ref.name)

\* the same, for references without ref-path components
C12_CleanTagVersionPlainRef ==
    (ProbeAtCleanTag /\ probe.repo.ref.prefix = <<>>) =>
        probe.result = OwnVersion(probe.repo.ref.name)

(***************************************************************************)
(* C13.  Commits since the matched version and a dirty working tree show   *)
(* in the result as a post number, the abbreviated hash and a dirty        *)
(* segment.                                                                *)
(***************************************************************************)
ProbeMatchedVersion ==
    /\ probe.called
    /\ probe.head # GitFails
    /\ probe.repo.shape = "matched"
    /\ fullmatch_version(probe.repo.ref.name)

InLocal(segment) ==
    \E i \in 1..Len(probe.result.local) : probe.result.local[i] = segment

LastLocalIs(segment) ==
    /\ probe.result.local # <<>>
    /\ probe.result.local[Len(probe.result.local)] = segment

\* C13: with N commits since the valid version V and dirty flag D, the
\* result has .postM iff N > 0 or D or V has a post number, M being V's
\* post number (or 0) plus N; g<hash> is a local segment iff N > 0 or D;
\* dirty is the last local segment iff D
C13_VersionWithDrift ==
    ProbeMatchedVersion =>
        LET V == parse_version(probe.repo.ref.name)
            N == int(probe.repo.n)
            D == probe.repo.dirty
            drift == N > 0 \/ D
        IN  /\ probe.result.raised = None
            /\ probe.result.base_version = V.base_version
            /\ (probe.result.post # NoPost) <=> (drift \/ V.post # NoPost)
            /\ (probe.result.post # NoPost) =>
                   probe.result.post = (IF V.post = NoPost THEN 0 ELSE V.post) + N
            /\ InLocal(<<"g">> \o Hash) <=> drift
            /\ LastLocalIs(<<"dirty">>) <=> D

\* three commits past v1.2.3 on feature-x with uncommitted changes:
\* 1.2.3.post3+feature-x.g<hash>.dirty
C13_Witness ==
    /\ ProbeMatchedVersion
    /\ probe.head = <<"feature", "-", "x">>
    /\ probe.repo.describe
           = <<"tags", "/", "v1.2.3", "-", "3", "-", "g", "abc", "-", "dirty">>
    /\ probe.result = [raised |-> None, base_version |-> "1.2.3", pre |-> "",
                       post |-> 3, dev |-> NoDev,
                       local |-> <<<<"feature", "-", "x">>, <<"g", "abc">>,
                                   <<"dirty">>>>]

(***************************************************************************)
(* C14.  The current branch is a local segment unless it is a trunk        *)
(* branch.                                                                 *)
(***************************************************************************)
\* C14: whenever a version is returned, for a matched reference or a bare
\* hash, its local segments contain the current branch name iff the name
\* is not main, master or develop
C14_BranchInLocal ==
    (probe.called /\ probe.result.raised = None) =>
        (InLocal(probe.head) <=> probe.head \notin TrunkNames)

\* the same, for answers that matched a reference named by a version
C14_BranchInLocalOfMatchedVersion ==
    (ProbeMatchedVersion /\ probe.result.raised = None) =>
        (InLocal(probe.head) <=> probe.head \notin TrunkNames)

ProbeBareHash ==
    /\ probe.called
    /\ probe.head # GitFails
    /\ probe.repo.shape = "bare"

\* C16, as stated: when describe answers with only an abbreviated commit
\* id, get_version_from_git raises and returns no version
C16_BareHashFatal ==
    ProbeBareHash => probe.result.raised # None

\* C16, amended: when describe answers with only an abbreviated commit id,
\* a version is returned: base 0.0, g<hash> among the local segments, and
\* for a dirty tree .post0 and dirty as the last local segment
C16_BareHashVersion ==
    ProbeBareHash =>
        /\ probe.result.raised = None
        /\ probe.result.base_version = "0.0"
        /\ probe.result.pre = "" /\ probe.result.dev = NoDev
        /\ probe.result.post = (IF probe.repo.dirty THEN 0 ELSE NoPost)
        /\ InLocal(<<"g">> \o Hash)
        /\ LastLocalIs(<<"dirty">>) <=> probe.repo.dirty

C16_Witness ==
    /\ ProbeBareHash
    /\ probe.repo.dirty
    /\ probe.head = <<"feature", "-", "x">>
    /\ probe.result.post = 0
    /\ Len(probe.result.local) = 2

(***************************************************************************)
(* SystemTZ.  Time is counted in ticks, DstShift of them to the hour.  The *)
(* zone the operating system is configured with has a standard offset and  *)
(* a daylight-saving period, the instants from dst_from up to dst_to,      *)
(* during which local time is one hour ahead.  time.localtime and          *)
(* time.mktime are the C library's: mktime with tm_isdst 0 or 1 reads the  *)
(* fields as standard or as daylight-saving time, whatever is in force;    *)
(* with tm_isdst -1 it returns an instant that has those local fields,     *)
(* either one when there are two, and when there is none takes the fields  *)
(* as standard or as daylight-saving time; which of the two is not known,  *)
(* but it is the same each time the same fields are asked for.             *)
(***************************************************************************)
DstShift == 2

Horizon == 16

Zone(std, from, to) == [std |-> std, dst_from |-> from, dst_to |-> to]

Zones ==
    { Zone(0, 0, 0),
      Zone(3, 0, 0),
      Zone(DstShift, 4, 11),
      Zone(-5, 5, 12),
      Zone(1, -3, 7) }

InDst(z, secs) == z.dst_from <= secs /\ secs < z.dst_to

\* time.localtime(secs): the first six fields as one number of ticks
localtime(z, secs) ==
    LET off == z.std + (IF InDst(z, secs) THEN DstShift ELSE 0) IN
    [fields |-> secs + off,
     tm_isdst |-> IF InDst(z, secs) THEN 1 ELSE 0,
     tm_gmtoff |-> off]

\* time.mktime((*fields, tm_isdst)): the instants it may return
mktime(z, fields, tm_isdst) ==
    IF tm_isdst >= 0
    THEN {fields - z.std - (IF tm_isdst > 0 THEN DstShift ELSE 0)}
    ELSE LET both == {fields - z.std, fields - z.std - DstShift}
             exact == {s \in both : localtime(z, s).fields = fields}
         IN  IF exact # {} THEN exact ELSE both

\* a datetime of this zone: its calendar fields and its fold
DateTime(fields, fold) == [fields |-> fields, fold |-> fold]

\* mutation: the fold is never set
fromutc_fold_zero(z, secs) ==
    DateTime(localtime(z, secs).fields, 0)

\* lines 82-119; secs is calendar.timegm of the UTC fields
fromutc(z, secs) ==
    LET t == localtime(z, secs)
        secs0 == CHOOSE s \in mktime(z, t.fields, 1 - t.tm_isdst) : TRUE
        t0 == localtime(z, secs0)
    IN  IF secs0 >= secs THEN DateTime(t.fields, 0)
        ELSE DateTime(t.fields, IF t.tm_gmtoff < t0.tm_gmtoff THEN 1 ELSE 0)

\* lines 121-141, after time.mktime((*fields, 0, 1, -1)) has returned secs
SystemTZ_mktime(z, dt, secs) ==
    LET t == localtime(z, secs)
        secs0 == CHOOSE s \in mktime(z, t.fields, 1 - t.tm_isdst) : TRUE
        t0 == localtime(z, secs0)
    IN  IF secs0 = secs THEN [t |-> t, secs |-> secs]
        ELSE IF t.tm_gmtoff = t0.tm_gmtoff THEN [t |-> t, secs |-> secs]
        ELSE IF (t.tm_gmtoff > t0.tm_gmtoff) # (dt.fold # 0)
             THEN [t |-> t, secs |-> secs]
             ELSE [t |-> t0, secs |-> secs0]

\* lines 143-162, for a datetime
utcoffset(z, dt, secs) == SystemTZ_mktime(z, dt, secs).t.tm_gmtoff

InitTz ==
    /\ wheel = new_wheel(FALSE)
    /\ last = [op |-> "init", raised |-> None, n0 |-> 0, was_closed |-> FALSE]
    /\ hist = <<>>
    /\ wheel2 = new_wheel(FALSE)
    /\ probe \in {[called |-> FALSE, zone |-> z] : z \in Zones}

\* an instant converted to local time and back:
\* dt = I.astimezone(tz); dt.replace(tzinfo=None) - dt.utcoffset()
RoundTrip ==
    \E I \in 0..Horizon :
        \E dt \in {fromutc(probe.zone, I)} :
            \E secs \in mktime(probe.zone, dt.fields, -1) :
                /\ probe' = [called |-> TRUE, zone |-> probe.zone, op |-> "roundtrip",
                             instant |-> I, dt |-> dt, secs |-> secs,
                             back |-> dt.fields - utcoffset(probe.zone, dt, secs)]
                /\ UNCHANGED <<wheel, last, hist, wheel2>>

\* utcoffset of the same local fields with fold=0 and with fold=1; the C
\* library answers the same question the same way both times
BothFolds ==
    \E fields \in -8..Horizon + 8 :
        \E secs \in mktime(probe.zone, fields, -1) :
            /\ probe' = [called |-> TRUE, zone |-> probe.zone, op |-> "folds",
                         fields |-> fields, secs |-> secs,
                         off |-> <<utcoffset(probe.zone, DateTime(fields, 0), secs),
                                   utcoffset(probe.zone, DateTime(fields, 1), secs)>>]
            /\ UNCHANGED <<wheel, last, hist, wheel2>>

NextTz ==
    \/ RoundTrip
    \/ BothFolds

SpecTz == InitTz /\ [][NextTz]_vars

(***************************************************************************)
(* C17.  Local time and back.                                              *)
(***************************************************************************)
\* the instants whose local fields are the given ones
InstantsOf(z, fields) ==
    {s \in fields - 16..fields + 16 : localtime(z, s).fields = fields}

C17_RoundTrip ==
    (probe.called /\ probe.op = "roundtrip") => probe.back = probe.instant

C17_Folds ==
    (probe.called /\ probe.op = "folds") =>
        LET early == probe.fields - probe.off[1]
            late == probe.fields - probe.off[2]
        IN  IF Cardinality(InstantsOf(probe.zone, probe.fields)) = 2
            THEN /\ late = early + DstShift
                 /\ InstantsOf(probe.zone, probe.fields) = {early, late}
            ELSE early = late

\* C17: an instant converted to local fields with fold by fromutc and back
\* with utcoffset is recovered exactly, inside a fall-back hour too; there
\* fold=0 and fold=1 give two instants one hour apart, fold=0 the earlier,
\* and elsewhere the fold does not change the result
C17_TimezoneRoundTrip == C17_RoundTrip /\ C17_Folds

\* an instant of the second pass through a repeated hour has come back
C17_Witness ==
    /\ probe.called /\ probe.op = "roundtrip"
    /\ probe.dt.fold = 1
    /\ Cardinality(InstantsOf(probe.zone, probe.dt.fields)) = 2
    /\ probe.secs # probe.instant
    /\ probe.back = probe.instant

(***************************************************************************)
(* passlib.context.CryptContext and passlib.hash.sha256_crypt.  The scheme *)
(* modules found in the package passlib.hash are sha256_crypt and a second *)
(* one, standing for any further module installed there; its hash and      *)
(* verify are not called.  A digest "$5$<salt>$<checksum>" is the pair of  *)
(* its salt and of the bytes the checksum was computed from.               *)
(***************************************************************************)
Installed == {"sha256_crypt", "sha512_crypt"}

NoCtx == [none |-> TRUE]

Ctx(schemes, default, deprecated) ==
    [none |-> FALSE, schemes |-> schemes, default |-> default, deprecated |-> deprecated]

\* self._schemes[scheme] = ...: a new key goes last, a known key stays
dict_add_key(keys, k) ==
    IF \E i \in 1..Len(keys) : keys[i] = k THEN keys ELSE Append(keys, k)

\* mutation: with 'auto' every scheme met after the default is chosen is
\* deprecated
CryptContext_init_scheme_all(ctx, scheme, auto_deprecated) ==
    IF ctx.default = None /\ scheme \notin ctx.deprecated
    THEN Ctx(dict_add_key(ctx.schemes, scheme), scheme, ctx.deprecated)
    ELSE IF auto_deprecated
         THEN Ctx(dict_add_key(ctx.schemes, scheme), ctx.default,
                  ctx.deprecated \cup {scheme})
         ELSE Ctx(dict_add_key(ctx.schemes, scheme), ctx.default, ctx.deprecated)

\* context.py:46-53: one scheme of the loop, its module found
CryptContext_init_scheme(ctx, scheme, auto_deprecated) ==
    IF ctx.default = None /\ scheme \notin ctx.deprecated
    THEN Ctx(dict_add_key(ctx.schemes, scheme), scheme, ctx.deprecated)
    ELSE IF auto_deprecated /\ scheme # ctx.default
         THEN Ctx(dict_add_key(ctx.schemes, scheme), ctx.default,
                  ctx.deprecated \cup {scheme})
         ELSE Ctx(dict_add_key(ctx.schemes, scheme), ctx.default, ctx.deprecated)

\* context.py:38-53: the loop over the schemes
RECURSIVE CryptContext_init_loop(_, _, _)
CryptContext_init_loop(ctx, schemes, auto_deprecated) ==
    IF schemes = <<>> THEN [raised |-> None, ctx |-> ctx]
    ELSE IF Head(schemes) \notin Installed
    THEN [raised |-> "ValueError: cannot find module", ctx |-> NoCtx]
    ELSE CryptContext_init_loop(
             CryptContext_init_scheme(ctx, Head(schemes), auto_deprecated),
             Tail(schemes), auto_deprecated)

\* context.py:20-53
CryptContext_init(schemes, default, deprecated) ==
    LET dep == {deprecated[i] : i \in 1..Len(deprecated)} IN
    IF "auto" \in dep
    THEN IF Cardinality(dep) > 1
         THEN [raised |-> "ValueError: auto with scheme names", ctx |-> NoCtx]
         ELSE CryptContext_init_loop(Ctx(<<>>, default, {}), schemes, TRUE)
    ELSE CryptContext_init_loop(Ctx(<<>>, default, dep), schemes, FALSE)

\* context.py:55-56
CryptContext_schemes(ctx) == ctx.schemes

\* context.py:58-59
default_scheme(ctx) == ctx.default

(***************************************************************************)
(* libcrypt.  crypt_ra fails with ERANGE for a passphrase of               *)
(* PassphraseLimit bytes or more; ctypes keeps the errno of the calls in a *)
(* copy of its own, which set_errno exchanges for a new value.             *)
(***************************************************************************)
PassphraseLimit == 3

ERANGE == 34

NoDigest == [none |-> TRUE]

Digest(salt, key) == [none |-> FALSE, salt |-> salt, key |-> key]

Salts == {"E1inH1CH", "DfPdfPuN"}

\* secret.encode('utf-8') of a str; bytes stay as they are
encode(secret) ==
    IF secret.kind = "bytes" THEN secret.data
    ELSE IF secret.data = <<322>> THEN <<197, 130>>
    ELSE secret.data

HasNul(bytes) == \E i \in 1..Len(bytes) : bytes[i] = 0

\* crypt_ra(secret, setting, ...): the digest under the setting's salt
crypt_ra(bytes, salt) ==
    IF Len(bytes) >= PassphraseLimit
    THEN [rv |-> NoDigest, errno |-> ERANGE]
    ELSE [rv |-> Digest(salt, bytes), errno |-> 0]

\* sha256_crypt.py:36-64; salt is what crypt_gensalt_ra drew
sha256_crypt_hash(errno, secret, salt) ==
    LET bytes == encode(secret)
        r == crypt_ra(bytes, salt)
    IN  IF HasNul(bytes)
        THEN [raised |-> "AssertionError", result |-> NoDigest, errno |-> errno]
        ELSE IF errno # 0
        THEN [raised |-> "AssertionError", result |-> NoDigest, errno |-> 0]
        ELSE IF r.rv.none \/ r.errno # 0
        THEN [raised |-> "RuntimeError", result |-> NoDigest, errno |-> r.errno]
        ELSE [raised |-> None, result |-> r.rv, errno |-> 0]

\* sha256_crypt.py:66-90
sha256_crypt_verify(errno, secret, hash) ==
    LET bytes == encode(secret)
        r == crypt_ra(bytes, hash.salt)
    IN  IF HasNul(bytes)
        THEN [raised |-> "AssertionError", result |-> FALSE, errno |-> errno]
        ELSE IF errno # 0
        THEN [raised |-> "AssertionError", result |-> FALSE, errno |-> 0]
        ELSE IF r.rv.none \/ r.errno # 0
        THEN [raised |-> "RuntimeError", result |-> FALSE, errno |-> r.errno]
        ELSE [raised |-> None, result |-> r.rv = hash, errno |-> 0]

\* context.py:61-75
CryptContext_hash(ctx, errno, secret, salt) ==
    IF ctx.default = None
    THEN [raised |-> "ValueError: no default scheme set", result |-> NoDigest,
          errno |-> errno]
    ELSE IF \A i \in 1..Len(ctx.schemes) : ctx.schemes[i] # ctx.default
    THEN [raised |-> "ValueError: unknown scheme", result |-> NoDigest,
          errno |-> errno]
    ELSE sha256_crypt_hash(errno, secret, salt)

\* context.py:77-91
CryptContext_verify(ctx, errno, secret, hash) ==
    IF ctx.default = None
    THEN [raised |-> "ValueError: no default scheme set", result |-> FALSE,
          errno |-> errno]
    ELSE IF \A i \in 1..Len(ctx.schemes) : ctx.schemes[i] # ctx.default
    THEN [raised |-> "ValueError: unknown scheme", result |-> FALSE,
          errno |-> errno]
    ELSE sha256_crypt_verify(errno, secret, hash)

(***************************************************************************)
(* A CryptContext is built, then hash and verify are called on it in any   *)
(* order and number.                                                       *)
(***************************************************************************)
SchemeNames == {"sha256_crypt", "sha512_crypt", "bogus"}

SchemeLists == UNION {[1..n -> SchemeNames] : n \in 0..3}

DeprecatedArgs ==
    {<<>>, <<"auto">>, <<"sha256_crypt">>, <<"sha512_crypt">>,
     <<"auto", "sha256_crypt">>, <<"sha256_crypt", "sha512_crypt">>}

DefaultArgs == {None, "sha512_crypt"}

NoSecret == [kind |-> "none", data |-> <<>>]

Bytes(data) == [kind |-> "bytes", data |-> data]

Text(data) == [kind |-> "str", data |-> data]

Secrets ==
    {Bytes(<<102>>), Bytes(<<102, 111>>), Text(<<102>>), Text(<<322>>),
     Bytes(<<102, 0>>), Bytes([i \in 1..PassphraseLimit |-> 97])}

InitCrypt ==
    /\ wheel = new_wheel(FALSE)
    /\ last = [op |-> "init", raised |-> None, n0 |-> 0, was_closed |-> FALSE]
    /\ hist = <<>>
    /\ wheel2 = new_wheel(FALSE)
    /\ probe = [called |-> FALSE, op |-> "none",
                args |-> [schemes |-> <<>>, default |-> None, deprecated |-> <<>>],
                ctx |-> NoCtx, errno0 |-> 0, errno |-> 0,
                secret |-> NoSecret, hashed |-> NoSecret, digest |-> NoDigest,
                raised |-> None, result |-> FALSE]

NewCryptContext ==
    /\ ~probe.called
    /\ \E schemes \in SchemeLists, default \in DefaultArgs, deprecated \in DeprecatedArgs :
        \E r \in {CryptContext_init(schemes, default, deprecated)} :
            /\ probe' = [probe EXCEPT
                            !.called = TRUE, !.op = "init",
                            !.args = [schemes |-> schemes, default |-> default,
                                      deprecated |-> deprecated],
                            !.ctx = r.ctx, !.raised = r.raised]
            /\ UNCHANGED <<wheel, last, hist, wheel2>>

\* hash and verify of the second scheme are not modelled
Callable(ctx) == ~ctx.none /\ ctx.default \in {None, "sha256_crypt"}

HashSecret ==
    /\ Callable(probe.ctx)
    /\ \E secret \in Secrets, salt \in Salts :
        \E r \in {CryptContext_hash(probe.ctx, probe.errno, secret, salt)} :
            /\ probe' = [probe EXCEPT
                            !.op = "hash", !.secret = secret,
                            !.errno0 = probe.errno, !.errno = r.errno,
                            !.raised = r.raised, !.result = FALSE,
                            !.digest = IF r.raised = None THEN r.result ELSE @,
                            !.hashed = IF r.raised = None THEN secret ELSE @]
            /\ UNCHANGED <<wheel, last, hist, wheel2>>

VerifySecret ==
    /\ Callable(probe.ctx)
    /\ ~probe.digest.none
    /\ \E secret \in Secrets :
        \E r \in {CryptContext_verify(probe.ctx, probe.errno, secret, probe.digest)} :
            /\ probe' = [probe EXCEPT
                            !.op = "verify", !.secret = secret,
                            !.errno0 = probe.errno, !.errno = r.errno,
                            !.raised = r.raised, !.result = r.result]
            /\ UNCHANGED <<wheel, last, hist, wheel2>>

NextCrypt ==
    \/ NewCryptContext
    \/ HashSecret
    \/ VerifySecret

SpecCrypt == InitCrypt /\ [][NextCrypt]_vars

(***************************************************************************)
(* C18.  The schemes, the default and the deprecated set of a context      *)
(* built without an explicit default.                                      *)
(***************************************************************************)
\* the names of a list in the order of their first occurrence
RECURSIVE FirstOccurrences(_)
FirstOccurrences(names) ==
    IF names = <<>> THEN <<>>
    ELSE LET front == FirstOccurrences(SubSeq(names, 1, Len(names) - 1))
             n == names[Len(names)]
         IN  IF \E i \in 1..Len(front) : front[i] = n THEN front ELSE Append(front, n)

\* the first name of the list that is not in the set, None without one
FirstNotIn(names, set) ==
    IF \E i \in 1..Len(names) : names[i] \notin set
    THEN names[CHOOSE i \in 1..Len(names) :
                   names[i] \notin set /\ \A j \in 1..i - 1 : names[j] \in set]
    ELSE None

ProbeBuilt ==
    /\ probe.called /\ probe.op = "init" /\ probe.raised = None
    /\ probe.args.default = None

\* C18: schemes() is the list given, default_scheme() the first scheme that
\* is not deprecated; with deprecated=['auto'] every scheme but the default
\* is deprecated and the default is not
C18_SchemesAndDefault ==
    ProbeBuilt =>
        LET given == probe.args.schemes
            dep == {probe.args.deprecated[i] : i \in 1..Len(probe.args.deprecated)}
        IN  /\ CryptContext_schemes(probe.ctx) = FirstOccurrences(given)
            /\ IF dep = {"auto"}
               THEN /\ default_scheme(probe.ctx) = FirstNotIn(given, {})
                    /\ probe.ctx.deprecated
                           = {given[i] : i \in 1..Len(given)} \ {default_scheme(probe.ctx)}
               ELSE /\ default_scheme(probe.ctx) = FirstNotIn(given, dep)
                    /\ probe.ctx.deprecated = dep

\* ['sha256_crypt', 'sha512_crypt', 'sha256_crypt'] with deprecated=['auto']
C18_Witness ==
    /\ ProbeBuilt
    /\ probe.args.deprecated = <<"auto">>
    /\ probe.args.schemes = <<"sha256_crypt", "sha512_crypt", "sha256_crypt">>
    /\ probe.ctx.schemes = <<"sha256_crypt", "sha512_crypt">>
    /\ probe.ctx.default = "sha256_crypt"
    /\ probe.ctx.deprecated = {"sha512_crypt"}

(***************************************************************************)
(* C19.  verify(secret, hash(secret)).                                     *)
(***************************************************************************)
UsableDefault == ~probe.ctx.none /\ probe.ctx.default = "sha256_crypt"

\* a secret libcrypt takes: no NUL byte, shorter than its passphrase limit
Acceptable(secret) ==
    /\ ~HasNul(encode(secret))
    /\ Len(encode(secret)) < PassphraseLimit

\* C19: on a context with a usable default scheme, hash(secret) of a secret
\* libcrypt takes returns a digest, and verify of the same secret and that
\* digest returns True
C19_VerifyOfHash ==
    /\ (UsableDefault /\ probe.op = "hash" /\ Acceptable(probe.secret))
           => (probe.raised = None /\ probe.hashed = probe.secret
               /\ ~probe.digest.none)
    /\ (UsableDefault /\ probe.op = "verify" /\ probe.secret = probe.hashed)
           => (probe.raised = None /\ probe.result = TRUE)

\* the same of the calls that find errno at zero: of the first call, and of
\* every call that does not follow a failed crypt_ra
C19_VerifyOfHashErrnoClear ==
    /\ (UsableDefault /\ probe.op = "hash" /\ Acceptable(probe.secret)
            /\ probe.errno0 = 0)
           => (probe.raised = None /\ probe.hashed = probe.secret
               /\ ~probe.digest.none)
    /\ (UsableDefault /\ probe.op = "verify" /\ probe.secret = probe.hashed
            /\ probe.errno0 = 0)
           => (probe.raised = None /\ probe.result = TRUE)

\* a verify of the hashed secret answered True
C19_VerifiedTrue ==
    /\ UsableDefault /\ probe.op = "verify" /\ probe.secret = probe.hashed
    /\ probe.raised = None /\ probe.result = TRUE

(***************************************************************************)
(* C20.  close() of a builder that was given no metadata directory.        *)
(***************************************************************************)
\* the call hands add_tree a directory whose archive path starts with a
\* name ending in .dist-info
HoldsMetadataDir(call) ==
    \/ is_dist_info_rel(call.root)
    \/ /\ call.root = <<>>
       /\ \E i \in 1..Len(call.tree) :
              call.tree[i].kind = "dir" /\ endswith_dist_info(call.tree[i].name)

NoMetadataGiven == \A i \in 1..Len(hist) : ~HoldsMetadataDir(hist[i])

C20_CloseStep ==
    (last'.op = "close" /\ wheel.fp # None /\ NoMetadataGiven) =>
        /\ last'.raised = "AssertionError"
        /\ wheel'.filelist = wheel.filelist
        /\ wheel'.fp = wheel.fp
        /\ wheel'.record = wheel.record
        /\ wheel'.buf = wheel.buf
        /\ wheel'.dist_info = wheel.dist_info
        /\ wheel'.dist_info_prefix = wheel.dist_info_prefix
        /\ wheel' = wheel

\* C20: close() of an open builder that was never given a directory under
\* a top-level name ending in .dist-info raises AssertionError, writes no
\* entry and no manifest, leaves the container open and the record, the
\* buffer and the staged metadata as they were
C20_CloseWithoutMetadata == [][C20_CloseStep]_vars

\* close() has just failed on a builder that archived files before
C20_Witness ==
    /\ last.op = "close" /\ last.raised = "AssertionError"
    /\ ~last.was_closed
    /\ hist # <<>> /\ NoMetadataGiven
    /\ wheel.fp # None
    /\ wheel.filelist # <<>>
    /\ wheel.dist_info_prefix = None

(***************************************************************************)
(* C21.  One metadata-directory name per builder.                          *)
(***************************************************************************)
\* the top-level names ending in .dist-info under which the call hands
\* add_tree a directory
MetadataNames(call) ==
    IF is_dist_info_rel(call.root) THEN {call.root[1]}
    ELSE IF call.root = <<>>
    THEN {call.tree[i].name : i \in {j \in 1..Len(call.tree) :
              call.tree[j].kind = "dir" /\ endswith_dist_info(call.tree[j].name)}}
    ELSE {}

\* the one of them the walk reaches first
FirstMetadataName(call) ==
    CHOOSE n \in MetadataNames(call) :
        \A m \in MetadataNames(call) : FoldedRank(n) <= FoldedRank(m)

StagedKeys(w) ==
    IF w.dist_info.none THEN {}
    ELSE {w.dist_info.items[i].k : i \in 1..Len(w.dist_info.items)}

ListingNames(listing) == {listing[i].name : i \in 1..Len(listing)}

\* the staged key k names the directory the call gives under the top-level
\* name n, or something lying directly in it
StagedFrom(call, n, k) ==
    IF call.root # <<>>
    THEN /\ call.root[1] = n
         /\ IsPrefix(Tail(call.root), k)
         /\ Len(k) >= Len(call.root) => k[Len(call.root)] \in ListingNames(call.tree)
    ELSE \E i \in 1..Len(call.tree) :
             /\ call.tree[i].kind = "dir" /\ call.tree[i].name = n
             /\ (k = <<>> \/ k[1] \in ListingNames(call.tree[i].kids))

C21_AddTreeStep ==
    last'.op = "add_tree" =>
        LET call == hist'[Len(hist')]
            names == MetadataNames(call)
            old == wheel.dist_info_prefix
            new == wheel'.dist_info_prefix
        IN  /\ old # None => new = old
            /\ (old = None /\ names = {}) => new = None
            /\ (old = None /\ new # None) => new = FirstMetadataName(call)
            /\ (\E n \in names : n # new) => last'.raised # None
            /\ (old # None /\ old \notin names) => wheel'.dist_info = wheel.dist_info
            /\ \A k \in StagedKeys(wheel') \ StagedKeys(wheel) : StagedFrom(call, new, k)

C21_CloseStep ==
    last'.op = "close" =>
        /\ wheel'.dist_info_prefix = wheel.dist_info_prefix
        /\ \A i \in (Len(wheel.filelist) + 1)..Len(wheel'.filelist) :
               wheel'.filelist[i].zinfo.filename.parts[1] = wheel.dist_info_prefix

\* C21: the first top-level name ending in .dist-info that add_tree reaches
\* becomes the builder's prefix and stays it; an add_tree that brings a
\* directory under another such name raises and stages nothing from it;
\* everything close() writes lies under the prefix
C21_SinglePrefix == [][C21_AddTreeStep /\ C21_CloseStep]_vars

\* a second metadata name was refused, and the container was closed with
\* what the first had staged
C21_Witness ==
    /\ Len(hist) = 2
    /\ hist[1].root = <<"x.dist-info">> /\ hist[1].raised = None
    /\ hist[2].root = <<"y.dist-info">> /\ hist[2].raised # None
    /\ wheel.dist_info_prefix = "x.dist-info"
    /\ last.op = "close" /\ last.raised = None /\ ~last.was_closed
    /\ Closed
    /\ NumEntries > last.n0

\* one call brought two metadata names: the first is the prefix, the call
\* failed on the second
C21_WitnessOneCall ==
    /\ Len(hist) = 1
    /\ MetadataNames(hist[1]) = {"x.dist-info", "y.dist-info"}
    /\ hist[1].raised # None
    /\ wheel.dist_info_prefix = "x.dist-info"
    /\ StagedKeys(wheel) = {<<>>, <<"METADATA">>}

====
